---- MODULE Spec2Model ----
(***************************************************************************)
(* A model of the .dbf table engine of shapelib (src/dbfopen.c).           *)
(*                                                                         *)
(* The stream behind a handle is a byte sequence with a position; the      *)
(* handle is the DBFInfo structure.  Every helper of dbfopen.c is an       *)
(* operator that maps an environment [h |-> handle, f |-> stream,          *)
(* ok |-> result] to the environment after the call, so that a public      *)
(* function is the composition of the calls it makes, in the order of the  *)
(* source.  Bytes are their integer codes.  The state keeps long byte       *)
(* strings (the file, the header copy and the record buffer of the handle) *)
(* cut into pages; H and fp are the handle and the stream with their byte  *)
(* strings whole, and every operator works on those.                       *)
(***************************************************************************)
EXTENDS Integers, Sequences, FiniteSets, TLC

VARIABLES
    psDBF,      \* <<>> (no handle) or <<h>>, h the DBFInfo of the open handle
    disk,       \* the .dbf stream: [data |-> bytes of the file, pos |-> offset,
                \* io |-> the last hook call, wfail |-> writes fail, and what
                \* the last API call did to it: used, err, unsafe, elided,
                \* marker; and of a rewrite of the records in place: unread, the
                \* records it has still to read in the layout old, and lost,
                \* whether a write went over one of them]
    last,       \* the last API call: [op, rec, fld, ret, out, arg, cur, dirty, n, prev]
    written,    \* per record index: the record bytes last written through the handle
    values,     \* per record and field: the value of the last successful typed write
    nCalls,     \* the number of API calls made so far
    cpg         \* the .cpg sidecar file: <<>> (no such file) or <<its bytes>>

vars == <<psDBF, disk, last, written, values, nCalls, cpg>>

(***************************************************************************)
(* Program constants.                                                      *)
(***************************************************************************)
XBASE_FILEHDR_SZ == 32
XBASE_FLDHDR_SZ == 32
XBASE_FLD_MAX_WIDTH == 255
XBASE_FLDNAME_LEN_WRITE == 10
HEADER_RECORD_TERMINATOR == 13
END_OF_FILE_CHARACTER == 26
MAX_HEADER_LENGTH == 65535

chSpace == 32
chStar == 42
chZero == 48
chQuestion == 63
chMinus == 45
chDot == 46
chC == 67
chD == 68
chF == 70
chL == 76
chN == 78
chT == 84

NULL == <<>>

(***************************************************************************)
(* Byte-string helpers (memset, memcpy, realloc).                          *)
(***************************************************************************)
Fill(n, b) == [i \in 1..n |-> b]

\* memcpy(dst + off, src, Len(src)), off counted from 0
MemCpy(dst, off, src) ==
    SubSeq(dst, 1, off) \o src \o SubSeq(dst, off + Len(src) + 1, Len(dst))

\* bytes [off, off + n) of buf, off counted from 0
Bytes(buf, off, n) == SubSeq(buf, off + 1, off + n)

\* realloc(buf, n): the first min(old, n) bytes are kept; the rest is not
\* initialised (the code never reads it before writing it)
Realloc(buf, n) ==
    IF n <= Len(buf) THEN SubSeq(buf, 1, n) ELSE buf \o Fill(n - Len(buf), 0)

Min(a, b) == IF a < b THEN a ELSE b

(***************************************************************************)
(* The I/O hooks (SAHooks) over the stream.                                *)
(***************************************************************************)
\* a stream at its start: no hook has been called, writes succeed
Stream(data) ==
    [data |-> data, pos |-> 0, io |-> "none", wfail |-> FALSE,
     used |-> FALSE, err |-> FALSE, unsafe |-> FALSE, elided |-> FALSE,
     marker |-> FALSE, unread |-> {}, old |-> <<0, 0>>, lost |-> FALSE]

\* the stream as an API call finds it: nothing done, nothing failed yet
Begin(f) ==
    [f EXCEPT !.used = FALSE, !.err = FALSE, !.unsafe = FALSE, !.elided = FALSE,
              !.marker = FALSE, !.unread = {}, !.old = <<0, 0>>, !.lost = FALSE]

\* a rewrite of the records of h in place begins: all of them are unread
Rewriting(f, h) ==
    [f EXCEPT !.unread = 0..(h.nRecords - 1),
              !.old = <<h.nHeaderLength, h.nRecordLength>>]

\* the unread records of which bytes [off, off + n) of the file hold a part
Covered(f, off, n) ==
    {i \in f.unread : /\ off < f.old[1] + (i + 1) * f.old[2]
                      /\ f.old[1] + i * f.old[2] < off + n}

FSeek(f, off) == [f EXCEPT !.pos = off, !.io = "seek", !.used = TRUE]

FTell(f) == f.pos

\* FWrite(ptr, size, 1, fp): a write past the end extends the file; a hole
\* left by a seek past the end reads as zero bytes
\* FWrite returns 1: the device takes the bytes
FWriteOk(f) == ~f.wfail

\* a write that follows a read with no seek between them is undefined for a
\* C stream: unsafe records that it happened; marker records that the
\* one byte END_OF_FILE_CHARACTER reached the file, lost that the bytes went
\* over a record a rewrite has not read yet
FWrite(f, bytes) ==
    LET n == Len(bytes)
        hole == IF f.pos > Len(f.data) THEN Fill(f.pos - Len(f.data), 0) ELSE <<>>
        Called(f1) == [f1 EXCEPT !.io = "write", !.used = TRUE,
                                 !.unsafe = @ \/ f.io = "read"]
    IN  IF n = 0 THEN f
        ELSE IF ~FWriteOk(f) THEN [Called(f) EXCEPT !.err = TRUE]
        ELSE Called([f EXCEPT
                !.data = (IF f.pos >= Len(f.data) THEN f.data
                          ELSE SubSeq(f.data, 1, f.pos))
                         \o hole \o bytes
                         \o (IF f.pos + n >= Len(f.data) THEN <<>>
                             ELSE SubSeq(f.data, f.pos + n + 1, Len(f.data))),
                !.pos = f.pos + n,
                !.marker = @ \/ bytes = <<END_OF_FILE_CHARACTER>>,
                !.lost = @ \/ Covered(f, f.pos, n) # {}])

\* the number of bytes a read of n bytes at the position can deliver
FAvail(f, n) ==
    IF f.pos >= Len(f.data) THEN 0 ELSE Min(n, Len(f.data) - f.pos)

\* FRead(ptr, n, 1, fp) returns 1 exactly when all n bytes are there
FReadOk(f, n) == n > 0 /\ FAvail(f, n) = n

\* the bytes a read delivers (all n, or the short rest of the file)
FReadBytes(f, n) == Bytes(f.data, f.pos, FAvail(f, n))

\* the stream after the read: a record read whole is no longer unread
FReadAdv(f, n) ==
    [f EXCEPT !.pos = f.pos + FAvail(f, n), !.io = "read", !.used = TRUE,
              !.err = @ \/ ~FReadOk(f, n),
              !.unread = {i \in @ : ~(/\ f.pos <= f.old[1] + i * f.old[2]
                                      /\ f.old[1] + (i + 1) * f.old[2]
                                            <= f.pos + FAvail(f, n))}]

Env(h, f, ok) == [h |-> h, f |-> f, ok |-> ok]

(***************************************************************************)
(* DBFWriteHeader: the 32-byte file header, the descriptors, the           *)
(* terminator and, for a table without records, the EOF character.         *)
(***************************************************************************)
FileHeaderBytes(h) ==
    [i \in 1..XBASE_FILEHDR_SZ |->
        CASE i = 1  -> 3
          [] i = 2  -> h.nUpdateYearSince1900 % 256
          [] i = 3  -> h.nUpdateMonth % 256
          [] i = 4  -> h.nUpdateDay % 256
          [] i = 9  -> h.nHeaderLength % 256
          [] i = 10 -> (h.nHeaderLength \div 256) % 256
          [] i = 11 -> h.nRecordLength % 256
          [] i = 12 -> (h.nRecordLength \div 256) % 256
          [] i = 30 -> h.iLanguageDriver % 256
          [] OTHER  -> 0]

\* a faulty header write that leaves the header terminator out
DBFWriteHeader_NoTerminator(e) ==
    LET WriteEof(h, f) ==
            Env(h, IF h.nRecords = 0 /\ h.bWriteEndOfFileChar
                   THEN FWrite(f, <<END_OF_FILE_CHARACTER>>)
                   ELSE f,
                e.ok)
        WriteFields(h, f) ==
            WriteEof(h, FWrite(f, Bytes(h.pszHeader, 0, XBASE_FLDHDR_SZ * h.nFields)))
    IN  IF ~e.h.bNoHeader THEN e
        ELSE WriteFields([e.h EXCEPT !.bNoHeader = FALSE],
                         FWrite(FSeek(e.f, 0), FileHeaderBytes(e.h)))

\* a faulty header write that leaves the end-of-file marker of an empty
\* table out
DBFWriteHeader_NoEof(e) ==
    LET WriteTerminator(h, f) ==
            Env(h, IF h.nHeaderLength > XBASE_FLDHDR_SZ * h.nFields + XBASE_FLDHDR_SZ
                   THEN FWrite(f, <<HEADER_RECORD_TERMINATOR>>)
                   ELSE f,
                e.ok)
        WriteFields(h, f) ==
            WriteTerminator(h, FWrite(f, Bytes(h.pszHeader, 0, XBASE_FLDHDR_SZ * h.nFields)))
    IN  IF ~e.h.bNoHeader THEN e
        ELSE WriteFields([e.h EXCEPT !.bNoHeader = FALSE],
                         FWrite(FSeek(e.f, 0), FileHeaderBytes(e.h)))

DBFWriteHeader(e) ==
    LET WriteEof(h, f) ==
            Env(h, IF h.nRecords = 0 /\ h.bWriteEndOfFileChar
                   THEN FWrite(f, <<END_OF_FILE_CHARACTER>>)
                   ELSE f,
                e.ok)
        WriteTerminator(h, f) ==
            WriteEof(h, IF h.nHeaderLength > XBASE_FLDHDR_SZ * h.nFields + XBASE_FLDHDR_SZ
                        THEN FWrite(f, <<HEADER_RECORD_TERMINATOR>>)
                        ELSE f)
        WriteFields(h, f) ==
            WriteTerminator(h, FWrite(f, Bytes(h.pszHeader, 0, XBASE_FLDHDR_SZ * h.nFields)))
    IN  IF ~e.h.bNoHeader THEN e
        ELSE WriteFields([e.h EXCEPT !.bNoHeader = FALSE],
                         FWrite(FSeek(e.f, 0), FileHeaderBytes(e.h)))

(***************************************************************************)
(* DBFFlushRecord: write the cached record back if it is dirty.            *)
(***************************************************************************)
RecordOffset(h, iRecord) == h.nRecordLength * iRecord + h.nHeaderLength

\* a faulty flush that never seeks: the record lands wherever the stream is
DBFFlushRecord_NoSeek(e) ==
    LET WriteEof(h, f) ==
            Env(h, IF h.nCurrentRecord = h.nRecords - 1 /\ h.bWriteEndOfFileChar
                   THEN FWrite(f, <<END_OF_FILE_CHARACTER>>)
                   ELSE f,
                TRUE)
        WriteRecord(h, f) ==
            IF ~FWriteOk(f)
            THEN Env(h, FWrite(f, Bytes(h.pszCurrentRecord, 0, h.nRecordLength)), FALSE)
            ELSE WriteEof([h EXCEPT !.bRequireNextWriteSeek = FALSE],
                          FWrite(f, Bytes(h.pszCurrentRecord, 0, h.nRecordLength)))
    IN  IF e.h.bCurrentRecordModified /\ e.h.nCurrentRecord > -1
        THEN WriteRecord([e.h EXCEPT !.bCurrentRecordModified = FALSE], e.f)
        ELSE Env(e.h, e.f, TRUE)

\* a faulty flush that forgets the record: the dirty mark goes, nothing is written
DBFFlushRecord_Discard(e) ==
    Env([e.h EXCEPT !.bCurrentRecordModified = FALSE], e.f, TRUE)

DBFFlushRecord(e) ==
    LET WriteEof(h, f) ==
            Env(h, IF h.nCurrentRecord = h.nRecords - 1 /\ h.bWriteEndOfFileChar
                   THEN FWrite(f, <<END_OF_FILE_CHARACTER>>)
                   ELSE f,
                TRUE)
        WriteRecord(h, f) ==
            IF ~FWriteOk(f)
            THEN Env(h, FWrite(f, Bytes(h.pszCurrentRecord, 0, h.nRecordLength)), FALSE)
            ELSE WriteEof([h EXCEPT !.bRequireNextWriteSeek = FALSE],
                          FWrite(f, Bytes(h.pszCurrentRecord, 0, h.nRecordLength)))
        \* elided records that the record was written without a seek
        SeekRecord(h, f) ==
            WriteRecord(h, IF h.bRequireNextWriteSeek
                              \/ FTell(f) # RecordOffset(h, h.nCurrentRecord)
                           THEN FSeek(f, RecordOffset(h, h.nCurrentRecord))
                           ELSE [f EXCEPT !.elided = TRUE])
    IN  IF e.h.bCurrentRecordModified /\ e.h.nCurrentRecord > -1
        THEN SeekRecord([e.h EXCEPT !.bCurrentRecordModified = FALSE], e.f)
        ELSE Env(e.h, e.f, TRUE)

(***************************************************************************)
(* DBFLoadRecord: make iRecord the cached record.                          *)
(***************************************************************************)
\* a faulty load that reads over the cached record without flushing it
DBFLoadRecord_NoFlush(e, iRecord) ==
    LET ReadRecord(h, f) ==
            IF ~FReadOk(f, h.nRecordLength)
            THEN Env([h EXCEPT !.pszCurrentRecord =
                                    MemCpy(@, 0, FReadBytes(f, h.nRecordLength))],
                     FReadAdv(f, h.nRecordLength), FALSE)
            ELSE Env([h EXCEPT !.pszCurrentRecord =
                                    MemCpy(@, 0, FReadBytes(f, h.nRecordLength)),
                               !.nCurrentRecord = iRecord,
                               !.bRequireNextWriteSeek = TRUE],
                     FReadAdv(f, h.nRecordLength), TRUE)
    IN  IF e.h.nCurrentRecord # iRecord
        THEN ReadRecord(e.h, FSeek(e.f, RecordOffset(e.h, iRecord)))
        ELSE Env(e.h, e.f, TRUE)

\* a faulty load that does not ask for a seek before the next write
DBFLoadRecord_NoRequire(e, iRecord) ==
    LET ReadRecord(h, f) ==
            IF ~FReadOk(f, h.nRecordLength)
            THEN Env([h EXCEPT !.pszCurrentRecord =
                                    MemCpy(@, 0, FReadBytes(f, h.nRecordLength))],
                     FReadAdv(f, h.nRecordLength), FALSE)
            ELSE Env([h EXCEPT !.pszCurrentRecord =
                                    MemCpy(@, 0, FReadBytes(f, h.nRecordLength)),
                               !.nCurrentRecord = iRecord],
                     FReadAdv(f, h.nRecordLength), TRUE)
        Flushed(e1) ==
            IF ~e1.ok THEN Env(e1.h, e1.f, FALSE)
            ELSE ReadRecord(e1.h, FSeek(e1.f, RecordOffset(e1.h, iRecord)))
    IN  IF e.h.nCurrentRecord # iRecord
        THEN Flushed(DBFFlushRecord(e))
        ELSE Env(e.h, e.f, TRUE)

DBFLoadRecord(e, iRecord) ==
    LET ReadRecord(h, f) ==
            IF ~FReadOk(f, h.nRecordLength)
            THEN Env([h EXCEPT !.pszCurrentRecord =
                                    MemCpy(@, 0, FReadBytes(f, h.nRecordLength))],
                     FReadAdv(f, h.nRecordLength), FALSE)
            ELSE Env([h EXCEPT !.pszCurrentRecord =
                                    MemCpy(@, 0, FReadBytes(f, h.nRecordLength)),
                               !.nCurrentRecord = iRecord,
                               !.bRequireNextWriteSeek = TRUE],
                     FReadAdv(f, h.nRecordLength), TRUE)
        Flushed(e1) ==
            IF ~e1.ok THEN Env(e1.h, e1.f, FALSE)
            ELSE ReadRecord(e1.h, FSeek(e1.f, RecordOffset(e1.h, iRecord)))
    IN  IF e.h.nCurrentRecord # iRecord
        THEN Flushed(DBFFlushRecord(e))
        ELSE Env(e.h, e.f, TRUE)

(***************************************************************************)
(* DBFUpdateHeader: refresh the date and the record count of the header.   *)
(***************************************************************************)
\* a faulty refresh that writes a fresh file header: nothing of the old one
\* is kept
DBFUpdateHeader_NoRead(e) ==
    LET Rewrite(h, f) ==
            Env(h,
                FWrite(FSeek(f, 0),
                       [i \in 1..XBASE_FILEHDR_SZ |->
                            CASE i = 2 -> h.nUpdateYearSince1900 % 256
                              [] i = 3 -> h.nUpdateMonth % 256
                              [] i = 4 -> h.nUpdateDay % 256
                              [] i = 5 -> h.nRecords % 256
                              [] i = 6 -> (h.nRecords \div 256) % 256
                              [] i = 7 -> (h.nRecords \div 65536) % 256
                              [] i = 8 -> (h.nRecords \div 16777216) % 256
                              [] OTHER -> 0]),
                e.ok)
        Flushed(e2) ==
            IF ~e2.ok THEN Env(e2.h, e2.f, e.ok)
            ELSE Rewrite(e2.h, FSeek(e2.f, 0))
    IN  Flushed(DBFFlushRecord(IF e.h.bNoHeader THEN DBFWriteHeader(e) ELSE e))

\* a faulty refresh that writes the header back without the record count
DBFUpdateHeader_NoCount(e) ==
    LET Rewrite(h, f, abyFileHeader) ==
            Env(h,
                FWrite(FSeek(f, 0),
                       [i \in 1..XBASE_FILEHDR_SZ |->
                            CASE i = 2 -> h.nUpdateYearSince1900 % 256
                              [] i = 3 -> h.nUpdateMonth % 256
                              [] i = 4 -> h.nUpdateDay % 256
                              [] OTHER -> IF i <= Len(abyFileHeader)
                                          THEN abyFileHeader[i] ELSE 0]),
                e.ok)
        ReadHeader(h, f) ==
            Rewrite(h, FReadAdv(f, XBASE_FILEHDR_SZ), FReadBytes(f, XBASE_FILEHDR_SZ))
        Flushed(e2) ==
            IF ~e2.ok THEN Env(e2.h, e2.f, e.ok)
            ELSE ReadHeader(e2.h, FSeek(e2.f, 0))
    IN  Flushed(DBFFlushRecord(IF e.h.bNoHeader THEN DBFWriteHeader(e) ELSE e))

DBFUpdateHeader(e) ==
    LET Rewrite(h, f, abyFileHeader) ==
            Env(h,
                FWrite(FSeek(f, 0),
                       [i \in 1..XBASE_FILEHDR_SZ |->
                            CASE i = 2 -> h.nUpdateYearSince1900 % 256
                              [] i = 3 -> h.nUpdateMonth % 256
                              [] i = 4 -> h.nUpdateDay % 256
                              [] i = 5 -> h.nRecords % 256
                              [] i = 6 -> (h.nRecords \div 256) % 256
                              [] i = 7 -> (h.nRecords \div 65536) % 256
                              [] i = 8 -> (h.nRecords \div 16777216) % 256
                              [] OTHER -> IF i <= Len(abyFileHeader)
                                          THEN abyFileHeader[i] ELSE 0]),
                e.ok)
        ReadHeader(h, f) ==
            Rewrite(h, FReadAdv(f, XBASE_FILEHDR_SZ), FReadBytes(f, XBASE_FILEHDR_SZ))
        Flushed(e2) ==
            IF ~e2.ok THEN Env(e2.h, e2.f, e.ok)
            ELSE ReadHeader(e2.h, FSeek(e2.f, 0))
    IN  Flushed(DBFFlushRecord(IF e.h.bNoHeader THEN DBFWriteHeader(e) ELSE e))

(***************************************************************************)
(* Decimal numbers in text: "%d" of a number that is not negative, and the *)
(* reading of leading digits.                                              *)
(***************************************************************************)
RECURSIVE Digits(_)
Digits(n) == IF n < 10 THEN <<chZero + n>> ELSE Digits(n \div 10) \o <<chZero + (n % 10)>>

IsDigit(b) == b >= chZero /\ b <= chZero + 9

RECURSIVE ParseDigits(_, _)
\* <<value of the leading digits after acc, the rest>>
ParseDigits(sz, acc) ==
    IF Len(sz) > 0 /\ IsDigit(sz[1])
    THEN ParseDigits(Tail(sz), 10 * acc + (sz[1] - chZero))
    ELSE <<acc, sz>>

(***************************************************************************)
(* Code pages.  A code page string is <<>> (the null pointer) or <<sz>>,   *)
(* sz the bytes of the C string.                                           *)
(***************************************************************************)
\* "LDID/"
LDID == <<76, 68, 73, 68, 47>>

chPlus == 43
chLF == 10
chCR == 13

\* the bytes isspace() accepts: tab to carriage return, and the space
IsSpace(b) == (b >= 9 /\ b <= 13) \/ b = chSpace

\* atoi(sz): white space, an optional sign, then digits up to the first
\* byte that is none
RECURSIVE Atoi(_)
Atoi(sz) ==
    IF Len(sz) > 0 /\ IsSpace(sz[1]) THEN Atoi(Tail(sz))
    ELSE IF Len(sz) > 0 /\ sz[1] = chMinus THEN -ParseDigits(Tail(sz), 0)[1]
    ELSE IF Len(sz) > 0 /\ sz[1] = chPlus THEN ParseDigits(Tail(sz), 0)[1]
    ELSE ParseDigits(sz, 0)[1]

\* the language driver id DBFCreateLL takes from the code page string: -1
\* when the string names none
CodePageLdid(pszCodePage) ==
    IF pszCodePage # NULL /\ Len(pszCodePage[1]) >= Len(LDID)
       /\ Bytes(pszCodePage[1], 0, Len(LDID)) = LDID
    THEN IF Atoi(Bytes(pszCodePage[1], Len(LDID), Len(pszCodePage[1]) - Len(LDID))) > 255
         THEN -1
         ELSE Atoi(Bytes(pszCodePage[1], Len(LDID), Len(pszCodePage[1]) - Len(LDID)))
    ELSE -1

\* a faulty create that writes the sidecar file for every code page string
CreatedSidecar_Always(pszCodePage) == pszCodePage

\* the sidecar file after DBFCreateLL: the string as it is, or no file
CreatedSidecar(pszCodePage) ==
    IF pszCodePage # NULL /\ CodePageLdid(pszCodePage) < 0 THEN pszCodePage ELSE NULL

(***************************************************************************)
(* DBFCreateLL: a new, empty table; the file is created empty ("wb+") and  *)
(* nothing is written yet.                                                 *)
(***************************************************************************)
CreatedHandle(pszCodePage) ==
    [nRecords |-> 0, nFields |-> 0, nRecordLength |-> 1,
     nHeaderLength |-> XBASE_FILEHDR_SZ + 1,
     panFieldOffset |-> <<>>, panFieldSize |-> <<>>,
     panFieldDecimals |-> <<>>, pachFieldType |-> <<>>,
     pszHeader |-> <<>>,
     nCurrentRecord |-> -1, bCurrentRecordModified |-> FALSE,
     pszCurrentRecord |-> <<>>,
     bNoHeader |-> TRUE, bUpdated |-> FALSE,
     iLanguageDriver |-> IF CodePageLdid(pszCodePage) > 0
                         THEN CodePageLdid(pszCodePage) ELSE 0,
     pszCodePage |-> pszCodePage,
     nUpdateYearSince1900 |-> 95, nUpdateMonth |-> 7, nUpdateDay |-> 26,
     bWriteEndOfFileChar |-> TRUE, bRequireNextWriteSeek |-> TRUE]

(***************************************************************************)
(* DBFOpenLL: parse the header of the file behind the stream.  The result  *)
(* of OpenedHandle is <<>> when the file is rejected and <<h>> otherwise;  *)
(* its code page is the one of a table without sidecar file.               *)
(***************************************************************************)
\* the descriptor of field iField (from 0) in the descriptor bytes
FInfo(pszHeader, iField) == Bytes(pszHeader, iField * XBASE_FLDHDR_SZ, XBASE_FLDHDR_SZ)

\* the number of descriptors before the first one that starts with 0x0D
CountFields(pabyBuf, iField, nFields) ==
    LET stops == {i \in iField..(nFields - 1) :
                    FInfo(pabyBuf, i)[1] = HEADER_RECORD_TERMINATOR}
    IN  IF stops = {} THEN nFields
        ELSE CHOOSE i \in stops : \A j \in stops : i <= j

\* sizes[lo] + ... + sizes[hi], summed by halves
RECURSIVE SumRange(_, _, _)
SumRange(sizes, lo, hi) ==
    IF lo > hi THEN 0
    ELSE IF lo = hi THEN sizes[lo]
    ELSE SumRange(sizes, lo, (lo + hi) \div 2)
         + SumRange(sizes, (lo + hi) \div 2 + 1, hi)

\* a faulty sum that leaves out the first width
SumSizes_SkipFirst(sizes, n) == SumRange(sizes, 2, n)

\* the sum of the first n widths: what the loop over the fields adds to 1
\* to find the offset of field n
SumSizes(sizes, n) == SumRange(sizes, 1, n)

OpenedHandle(data) ==
    LET Handle(pabyBuf, nRecs, nHeadLen, nRecLen, pszHeader, nFields, sizes, types) ==
            IF nFields > 0
               /\ 1 + SumSizes(sizes, nFields - 1) + sizes[nFields] > nRecLen
            THEN NULL
            ELSE <<[nRecords |-> nRecs, nFields |-> nFields,
                    nRecordLength |-> nRecLen, nHeaderLength |-> nHeadLen,
                    panFieldOffset |-> [i \in 1..nFields |-> 1 + SumSizes(sizes, i - 1)],
                    panFieldSize |-> sizes,
                    panFieldDecimals |->
                        [i \in 1..nFields |->
                            IF types[i] = chN \/ types[i] = chF
                            THEN FInfo(pszHeader, i - 1)[18] ELSE 0],
                    pachFieldType |-> types,
                    pszHeader |-> pszHeader,
                    nCurrentRecord |-> -1, bCurrentRecordModified |-> FALSE,
                    pszCurrentRecord |-> Fill(nRecLen, 0),
                    bNoHeader |-> FALSE, bUpdated |-> FALSE,
                    iLanguageDriver |-> pabyBuf[30],
                    pszCodePage |-> IF pabyBuf[30] # 0
                                    THEN <<LDID \o Digits(pabyBuf[30])>> ELSE NULL,
                    nUpdateYearSince1900 |-> pabyBuf[2],
                    nUpdateMonth |-> pabyBuf[3], nUpdateDay |-> pabyBuf[4],
                    bWriteEndOfFileChar |-> TRUE,
                    bRequireNextWriteSeek |-> TRUE]>>
        Fields(pabyBuf, nRecs, nHeadLen, nRecLen, pszHeader, nFields) ==
            Handle(pabyBuf, nRecs, nHeadLen, nRecLen, pszHeader, nFields,
                   [i \in 1..nFields |-> FInfo(pszHeader, i - 1)[17]],
                   [i \in 1..nFields |-> FInfo(pszHeader, i - 1)[12]])
        Header(pabyBuf, nRecs, nHeadLen, nRecLen, pszHeader) ==
            Fields(pabyBuf, nRecs, nHeadLen, nRecLen, pszHeader,
                   CountFields(pszHeader, 0,
                               (nHeadLen - XBASE_FILEHDR_SZ) \div XBASE_FLDHDR_SZ))
        Lengths(pabyBuf, nHeadLen, nRecLen) ==
            IF nRecLen = 0 \/ nHeadLen < XBASE_FILEHDR_SZ THEN NULL
            ELSE IF ~FReadOk(FSeek(Stream(data), XBASE_FILEHDR_SZ),
                             nHeadLen - XBASE_FILEHDR_SZ) THEN NULL
            ELSE Header(pabyBuf,
                        pabyBuf[5] + 256 * pabyBuf[6] + 65536 * pabyBuf[7]
                            + 16777216 * (pabyBuf[8] % 128),
                        nHeadLen, nRecLen,
                        Bytes(data, XBASE_FILEHDR_SZ, nHeadLen - XBASE_FILEHDR_SZ))
        FileHeader(pabyBuf) ==
            Lengths(pabyBuf, pabyBuf[9] + 256 * pabyBuf[10],
                    pabyBuf[11] + 256 * pabyBuf[12])
    IN  IF Len(data) < XBASE_FILEHDR_SZ THEN NULL
        ELSE FileHeader(Bytes(data, 0, XBASE_FILEHDR_SZ))

\* the stream position DBFOpenLL leaves behind: after the descriptors
OpenedPos(data) == data[9] + 256 * data[10]

\* the size of the buffer the header and the sidecar file are read into
nBufSize == 500

\* strcspn(sz, "\n\r") of the buffer, which is full of NULs behind what
\* was read: the bytes before the first line end or NUL
LineLen(sz) ==
    LET stops == {i \in 1..Len(sz) : sz[i] = chLF \/ sz[i] = chCR \/ sz[i] = 0}
    IN  IF stops = {} THEN Len(sz)
        ELSE (CHOOSE i \in stops : \A j \in stops : i <= j) - 1

\* the code page of a table that has a sidecar file: its first line; if
\* that is empty, "LDID/n" of the header's language driver id n, provided
\* byte 29 of the buffer, which now holds the sidecar's bytes, is not NUL
SidecarCodePage(sidecar, iLanguageDriver) ==
    LET pabyBuf == Bytes(sidecar, 0, Min(Len(sidecar), nBufSize - 1))
    IN  IF LineLen(pabyBuf) > 0 THEN <<Bytes(pabyBuf, 0, LineLen(pabyBuf))>>
        ELSE IF Len(pabyBuf) > 29 /\ pabyBuf[30] # 0
             THEN <<LDID \o Digits(iLanguageDriver)>>
        ELSE NULL

\* DBFGetCodePage of a handle, or of none
DBFGetCodePage(ps) == IF ps = NULL THEN NULL ELSE ps[1].pszCodePage

\* the access strings DBFOpenLL allows
AccessModes == {"r", "r+", "rb", "rb+", "r+b"}

\* the first 32 bytes are there and state a record length and a header
\* length the code accepts
LengthsAccepted(data) ==
    /\ Len(data) >= XBASE_FILEHDR_SZ
    /\ data[11] + 256 * data[12] # 0
    /\ data[9] + 256 * data[10] >= XBASE_FILEHDR_SZ

\* a faulty open that forgets the sidecar stream when it rejects the lengths
\* of the header
OpenLL_LeakSidecar(pszAccess, bFound, data, sidecar) ==
    LET OpenCpg == IF sidecar # NULL THEN <<"FOpen cpg">> ELSE <<>>
        CloseCpg == IF sidecar # NULL THEN <<"FClose cpg">> ELSE <<>>
        Result(ps, hooks) == [ps |-> ps, hooks |-> hooks]
    IN  IF pszAccess \notin AccessModes THEN Result(NULL, <<>>)
        ELSE IF ~bFound THEN Result(NULL, OpenCpg \o CloseCpg)
        ELSE IF ~LengthsAccepted(data)
             THEN Result(NULL, <<"FOpen dbf">> \o OpenCpg \o <<"FClose dbf">>)
        ELSE IF OpenedHandle(data) = NULL
             THEN Result(NULL, <<"FOpen dbf">> \o OpenCpg \o CloseCpg \o <<"FClose dbf">>)
        ELSE Result(IF sidecar = NULL THEN OpenedHandle(data)
                    ELSE <<[OpenedHandle(data)[1] EXCEPT
                              !.pszCodePage =
                                  SidecarCodePage(sidecar[1],
                                                  OpenedHandle(data)[1].iLanguageDriver)]>>,
                    <<"FOpen dbf">> \o OpenCpg \o CloseCpg)

\* DBFOpenLL with the access string pszAccess, on a .dbf file that FOpen
\* finds or not: the handle, and the FOpen and FClose calls made, in order
OpenLL(pszAccess, bFound, data, sidecar) ==
    LET OpenCpg == IF sidecar # NULL THEN <<"FOpen cpg">> ELSE <<>>
        CloseCpg == IF sidecar # NULL THEN <<"FClose cpg">> ELSE <<>>
        Result(ps, hooks) == [ps |-> ps, hooks |-> hooks]
    IN  IF pszAccess \notin AccessModes THEN Result(NULL, <<>>)
        ELSE IF ~bFound THEN Result(NULL, OpenCpg \o CloseCpg)
        ELSE IF ~LengthsAccepted(data)
             THEN Result(NULL, <<"FOpen dbf">> \o OpenCpg \o <<"FClose dbf">> \o CloseCpg)
        ELSE IF OpenedHandle(data) = NULL
             THEN Result(NULL, <<"FOpen dbf">> \o OpenCpg \o CloseCpg \o <<"FClose dbf">>)
        ELSE Result(IF sidecar = NULL THEN OpenedHandle(data)
                    ELSE <<[OpenedHandle(data)[1] EXCEPT
                              !.pszCodePage =
                                  SidecarCodePage(sidecar[1],
                                                  OpenedHandle(data)[1].iLanguageDriver)]>>,
                    <<"FOpen dbf">> \o OpenCpg \o CloseCpg)

(***************************************************************************)
(* DBFClose: header if never written, dirty record, header refresh.        *)
(***************************************************************************)
\* a faulty close that writes a missing header and closes the stream at once
CloseHandle_NoFlush(e) == IF e.h.bNoHeader THEN DBFWriteHeader(e) ELSE e

CloseHandle(e) ==
    LET Flushed(e2) == IF e2.h.bUpdated THEN DBFUpdateHeader(e2) ELSE e2
    IN  Flushed(DBFFlushRecord(IF e.h.bNoHeader THEN DBFWriteHeader(e) ELSE e))

(***************************************************************************)
(* DBFGetNullCharacter                                                     *)
(***************************************************************************)
\* a faulty choice that takes the space for every type
DBFGetNullCharacter_Space(chType) == chSpace

DBFGetNullCharacter(chType) ==
    CASE chType = chN \/ chType = chF -> chStar
      [] chType = chD -> chZero
      [] chType = chL -> chQuestion
      [] OTHER -> chSpace

(***************************************************************************)
(* The 32-byte descriptor of a field (DBFAddNativeFieldType,               *)
(* DBFAlterFieldDefn): name cut to 10 bytes and NUL padded, type, width    *)
(* and decimals.                                                           *)
(***************************************************************************)
\* a faulty descriptor that leaves the decimals byte zero
FieldDescriptor_NoDecimals(pszFieldName, chType, nWidth, nDecimals) ==
    [i \in 1..XBASE_FLDHDR_SZ |->
        CASE i <= XBASE_FLDNAME_LEN_WRITE ->
                IF i <= Len(pszFieldName) THEN pszFieldName[i] ELSE 0
          [] i = 12 -> chType
          [] i = 17 -> nWidth % 256
          [] OTHER -> 0]

FieldDescriptor(pszFieldName, chType, nWidth, nDecimals) ==
    [i \in 1..XBASE_FLDHDR_SZ |->
        CASE i <= XBASE_FLDNAME_LEN_WRITE ->
                IF i <= Len(pszFieldName) THEN pszFieldName[i] ELSE 0
          [] i = 12 -> chType
          [] i = 17 -> nWidth % 256
          [] i = 18 -> IF chType = chC THEN (nWidth \div 256) % 256
                       ELSE nDecimals % 256
          [] OTHER -> 0]

(***************************************************************************)
(* DBFAddNativeFieldType                                                   *)
(***************************************************************************)
\* a faulty record loop that moves the records but never sets the bytes of
\* the new field
RECURSIVE AddFieldShift_NoFill(_, _, _, _, _, _)
AddFieldShift_NoFill(h, f, i, nOldRecordLength, nOldHeaderLength, chFieldFill) ==
    LET Move(f1) ==
            IF ~FReadOk(f1, nOldRecordLength)
            THEN [f |-> FReadAdv(f1, nOldRecordLength), ok |-> FALSE]
            ELSE AddFieldShift_NoFill(
                    h,
                    FWrite(FSeek(FReadAdv(f1, nOldRecordLength), RecordOffset(h, i)),
                           FReadBytes(f1, nOldRecordLength)
                           \o Fill(h.nRecordLength - nOldRecordLength, 0)),
                    i - 1, nOldRecordLength, nOldHeaderLength, chFieldFill)
    IN  IF i < 0 THEN [f |-> f, ok |-> TRUE]
        ELSE Move(FSeek(f, nOldRecordLength * i + nOldHeaderLength))

\* a faulty record loop that moves the records from first to last
RECURSIVE AddFieldShift_Forward(_, _, _, _, _, _)
AddFieldShift_Forward(h, f, i, nOldRecordLength, nOldHeaderLength, chFieldFill) ==
    LET Move(f1) ==
            IF ~FReadOk(f1, nOldRecordLength)
            THEN [f |-> FReadAdv(f1, nOldRecordLength), ok |-> FALSE]
            ELSE AddFieldShift_Forward(
                    h,
                    FWrite(FSeek(FReadAdv(f1, nOldRecordLength),
                                 RecordOffset(h, h.nRecords - 1 - i)),
                           FReadBytes(f1, nOldRecordLength)
                           \o Fill(h.nRecordLength - nOldRecordLength, chFieldFill)),
                    i - 1, nOldRecordLength, nOldHeaderLength, chFieldFill)
    IN  IF i < 0 THEN [f |-> f, ok |-> TRUE]
        ELSE Move(FSeek(f, nOldRecordLength * (h.nRecords - 1 - i) + nOldHeaderLength))

\* the record loop: records move from last to first to their new places
RECURSIVE AddFieldShift(_, _, _, _, _, _)
AddFieldShift(h, f, i, nOldRecordLength, nOldHeaderLength, chFieldFill) ==
    LET Move(f1) ==
            IF ~FReadOk(f1, nOldRecordLength)
            THEN [f |-> FReadAdv(f1, nOldRecordLength), ok |-> FALSE]
            ELSE AddFieldShift(
                    h,
                    FWrite(FSeek(FReadAdv(f1, nOldRecordLength), RecordOffset(h, i)),
                           FReadBytes(f1, nOldRecordLength)
                           \o Fill(h.nRecordLength - nOldRecordLength, chFieldFill)),
                    i - 1, nOldRecordLength, nOldHeaderLength, chFieldFill)
    IN  IF i < 0 THEN [f |-> f, ok |-> TRUE]
        ELSE Move(FSeek(f, nOldRecordLength * i + nOldHeaderLength))

\* the result: the environment, with ret the new field's index or -1
AddNativeFieldType(e, pszFieldName, chType, nWidthArg, nDecimals) ==
    LET nWidth == IF nWidthArg > XBASE_FLD_MAX_WIDTH THEN XBASE_FLD_MAX_WIDTH
                  ELSE nWidthArg
        Fail(h, f) == [h |-> h, f |-> f, ret |-> -1]
        Done(e2, n) ==
            [h |-> [e2.h EXCEPT !.nCurrentRecord = -1,
                                !.bCurrentRecordModified = FALSE,
                                !.bUpdated = TRUE],
             f |-> e2.f, ret |-> n]
        Shifted(h1, r, n) ==
            IF ~r.ok THEN Fail(h1, r.f)
            ELSE Done(DBFUpdateHeader(
                        Env([h1 EXCEPT !.bNoHeader = TRUE],
                            IF h1.bWriteEndOfFileChar
                            THEN FWrite(FSeek(r.f, RecordOffset(h1, h1.nRecords)),
                                        <<END_OF_FILE_CHARACTER>>)
                            ELSE r.f,
                            TRUE)),
                      n)
        Grown(h0, h1, f) ==
            IF h1.bNoHeader THEN [h |-> h1, f |-> f, ret |-> h0.nFields]
            ELSE Shifted(h1,
                         AddFieldShift(h1, f, h1.nRecords - 1, h0.nRecordLength,
                                       h0.nHeaderLength, DBFGetNullCharacter(chType)),
                         h0.nFields)
        Grow(h0, f) ==
            Grown(h0,
                  [h0 EXCEPT
                    !.nFields = h0.nFields + 1,
                    !.panFieldOffset = Realloc(@, h0.nFields) \o <<h0.nRecordLength>>,
                    !.panFieldSize = Realloc(@, h0.nFields) \o <<nWidth>>,
                    !.panFieldDecimals = Realloc(@, h0.nFields) \o <<nDecimals>>,
                    !.pachFieldType = Realloc(@, h0.nFields) \o <<chType>>,
                    !.nRecordLength = h0.nRecordLength + nWidth,
                    !.nHeaderLength = h0.nHeaderLength + XBASE_FLDHDR_SZ,
                    !.bUpdated = FALSE,
                    !.pszHeader = Realloc(@, h0.nFields * XBASE_FLDHDR_SZ)
                        \o FieldDescriptor(pszFieldName, chType, nWidth, nDecimals),
                    !.pszCurrentRecord = Realloc(@, h0.nRecordLength + nWidth)],
                  f)
        Flushed(e1) ==
            IF ~e1.ok THEN Fail(e1.h, e1.f)
            ELSE IF e1.h.nHeaderLength + XBASE_FLDHDR_SZ > MAX_HEADER_LENGTH
                 THEN Fail(e1.h, e1.f)
            ELSE IF nWidthArg < 1 THEN Fail(e1.h, e1.f)
            ELSE IF e1.h.nRecordLength + nWidth > MAX_HEADER_LENGTH
                 THEN Fail(e1.h, e1.f)
            ELSE Grow(e1.h, Rewriting(e1.f, e1.h))
    IN  Flushed(DBFFlushRecord(e))

(***************************************************************************)
(* C strings: the bytes before the first NUL.                              *)
(***************************************************************************)
\* the index (from 0) of the first NUL at or after i, or the length of buf
StrLen(buf, i) ==
    LET stops == {j \in i..(Len(buf) - 1) : buf[j + 1] = 0}
    IN  IF stops = {} THEN Len(buf)
        ELSE CHOOSE j \in stops : \A k \in stops : j <= k

CStr(buf) == SubSeq(buf, 1, StrLen(buf, 0))

AllAre(buf, b) == \A i \in 1..Len(buf) : buf[i] = b

\* the build's whitespace policy for string reads
TRIM_DBF_WHITESPACE == TRUE

\* sz from its first byte that is not a space
SkipLeading(sz) ==
    LET kept == {i \in 1..Len(sz) : sz[i] # chSpace}
    IN  IF kept = {} THEN <<>>
        ELSE SubSeq(sz, CHOOSE i \in kept : \A j \in kept : i <= j, Len(sz))

\* sz up to its last byte that is not a space
DropTrailing(sz) ==
    LET kept == {i \in 1..Len(sz) : sz[i] # chSpace}
    IN  IF kept = {} THEN <<>>
        ELSE SubSeq(sz, 1, CHOOSE i \in kept : \A j \in kept : i >= j)

Trim(sz) == DropTrailing(SkipLeading(sz))

(***************************************************************************)
(* DBFIsValueNULL(chType, pszValue, size), pszValue a C string             *)
(***************************************************************************)
DBFIsValueNULL(chType, pszValue, size) ==
    CASE chType = chN \/ chType = chF ->
            \/ (Len(pszValue) > 0 /\ pszValue[1] = chStar)
            \/ AllAre(pszValue, chSpace)
      [] chType = chD ->
            \/ Len(pszValue) = 0
            \/ (Len(pszValue) >= 8 /\ AllAre(SubSeq(pszValue, 1, 8), chZero))
            \/ pszValue = <<chSpace>>
            \/ pszValue = <<chZero>>
            \/ (Len(pszValue) >= size /\ AllAre(SubSeq(pszValue, 1, size), chZero))
      [] chType = chL -> Len(pszValue) > 0 /\ pszValue[1] = chQuestion
      [] OTHER -> Len(pszValue) = 0

(***************************************************************************)
(* Number formatting and parsing of DBFWriteAttribute: "%*.*f" of an       *)
(* integer value, and Atof of the cut text compared with the value.        *)
(***************************************************************************)
FormatF(value, nWidth, nDecimals) ==
    LET body == (IF value < 0 THEN <<chMinus>> ELSE <<>>)
                \o Digits(IF value < 0 THEN -value ELSE value)
                \o (IF nDecimals > 0 THEN <<chDot>> \o Fill(nDecimals, chZero) ELSE <<>>)
    IN  Fill(IF nWidth > Len(body) THEN nWidth - Len(body) ELSE 0, chSpace) \o body

\* Atof(sz) == value, for an integer value
AtofEquals(sz, value) ==
    LET s0 == SkipLeading(sz)
        neg == Len(s0) > 0 /\ s0[1] = chMinus
        s1 == IF neg THEN Tail(s0) ELSE s0
        ip == ParseDigits(s1, 0)
        rest == ip[2]
        frac == IF Len(rest) > 0 /\ rest[1] = chDot THEN Tail(rest) ELSE <<>>
        fracZero == \A i \in 1..Len(frac) :
                        (\A j \in 1..i : IsDigit(frac[j])) => frac[i] = chZero
    IN  fracZero /\ (IF neg THEN -ip[1] ELSE ip[1]) = value

(***************************************************************************)
(***************************************************************************)
(* The common start of DBFWriteAttribute, DBFWriteAttributeDirectly and    *)
(* DBFWriteTuple: range check, lazy header, append, load.                  *)
(***************************************************************************)
\* a faulty start that appends without counting the new record
WritePrologue_NoCount(e, hEntity) ==
    LET AppendRecord(e3) ==
            IF ~e3.ok THEN Env(e3.h, e3.f, FALSE)
            ELSE Env([e3.h EXCEPT
                        !.pszCurrentRecord =
                            MemCpy(@, 0, Fill(e3.h.nRecordLength, chSpace)),
                        !.nCurrentRecord = hEntity],
                     e3.f, TRUE)
        WithHeader(e1) ==
            IF hEntity = e1.h.nRecords
            THEN AppendRecord(DBFFlushRecord(e1))
            ELSE DBFLoadRecord(e1, hEntity)
    IN  IF hEntity < 0 \/ hEntity > e.h.nRecords THEN Env(e.h, e.f, FALSE)
        ELSE WithHeader(IF e.h.bNoHeader THEN DBFWriteHeader(e) ELSE e)

\* a faulty start that does not write the header of a created table
WritePrologue_NoHeader(e, hEntity) ==
    LET AppendRecord(e3) ==
            IF ~e3.ok THEN Env(e3.h, e3.f, FALSE)
            ELSE Env([e3.h EXCEPT
                        !.nRecords = @ + 1,
                        !.pszCurrentRecord =
                            MemCpy(@, 0, Fill(e3.h.nRecordLength, chSpace)),
                        !.nCurrentRecord = hEntity],
                     e3.f, TRUE)
        Load(e2) == IF ~e2.ok THEN e2 ELSE DBFLoadRecord(e2, hEntity)
        WithHeader(e1) ==
            Load(IF hEntity = e1.h.nRecords
                 THEN AppendRecord(DBFFlushRecord(e1))
                 ELSE Env(e1.h, e1.f, TRUE))
    IN  IF hEntity < 0 \/ hEntity > e.h.nRecords THEN Env(e.h, e.f, FALSE)
        ELSE WithHeader(e)

WritePrologue(e, hEntity) ==
    LET AppendRecord(e3) ==
            IF ~e3.ok THEN Env(e3.h, e3.f, FALSE)
            ELSE Env([e3.h EXCEPT
                        !.nRecords = @ + 1,
                        !.pszCurrentRecord =
                            MemCpy(@, 0, Fill(e3.h.nRecordLength, chSpace)),
                        !.nCurrentRecord = hEntity],
                     e3.f, TRUE)
        Load(e2) == IF ~e2.ok THEN e2 ELSE DBFLoadRecord(e2, hEntity)
        WithHeader(e1) ==
            Load(IF hEntity = e1.h.nRecords
                 THEN AppendRecord(DBFFlushRecord(e1))
                 ELSE Env(e1.h, e1.f, TRUE))
    IN  IF hEntity < 0 \/ hEntity > e.h.nRecords THEN Env(e.h, e.f, FALSE)
        ELSE WithHeader(IF e.h.bNoHeader THEN DBFWriteHeader(e) ELSE e)

Dirty(h) == [h EXCEPT !.bCurrentRecordModified = TRUE, !.bUpdated = TRUE]

\* a faulty write that leaves the rest of a string field as it was
WriteAttribute_NoPad(e, hEntity, iField, pValue) ==
    LET Done(h, f, rec, ret) ==
            [h |-> [h EXCEPT !.pszCurrentRecord = rec], f |-> f, ret |-> ret,
             ok |-> TRUE]
        Number(h, f, off, size, szFull) ==
            Done(h, f,
                 MemCpy(h.pszCurrentRecord, off,
                        IF Len(szFull) > size THEN SubSeq(szFull, 1, size) ELSE szFull),
                 IF Len(szFull) > size
                 THEN AtofEquals(SubSeq(szFull, 1, size), pValue.v) ELSE TRUE)
        Format(h, f, off, size, full) ==
            Number(h, f, off, size, SubSeq(full, 1, Min(Len(full), XBASE_FLD_MAX_WIDTH)))
        Typed(h, f, off, size, chType) ==
            IF pValue.kind = "null"
            THEN Done(h, f,
                      MemCpy(h.pszCurrentRecord, off,
                             Fill(size, DBFGetNullCharacter(chType))),
                      TRUE)
            ELSE IF chType = chD \/ chType = chN \/ chType = chF
            THEN Format(h, f, off, size,
                        FormatF(pValue.v,
                                IF XBASE_FLD_MAX_WIDTH + 1 - 2 < size
                                THEN XBASE_FLD_MAX_WIDTH + 1 - 2 ELSE size,
                                h.panFieldDecimals[iField + 1]))
            ELSE IF chType = chL
            THEN IF size >= 1 /\ (pValue.v = chF \/ pValue.v = chT)
                 THEN Done(h, f, MemCpy(h.pszCurrentRecord, off, <<pValue.v>>), TRUE)
                 ELSE Done(h, f, h.pszCurrentRecord, FALSE)
            ELSE IF Len(pValue.v) > size
            THEN Done(h, f, MemCpy(h.pszCurrentRecord, off, SubSeq(pValue.v, 1, size)),
                      FALSE)
            ELSE Done(h, f,
                      MemCpy(h.pszCurrentRecord, off, pValue.v),
                      TRUE)
        Current(e1) ==
            IF ~e1.ok THEN [h |-> e1.h, f |-> e1.f, ret |-> FALSE, ok |-> FALSE]
            ELSE Typed(Dirty(e1.h), e1.f, e1.h.panFieldOffset[iField + 1],
                       e1.h.panFieldSize[iField + 1], e1.h.pachFieldType[iField + 1])
    IN  Current(WritePrologue(e, hEntity))

(***************************************************************************)
(* DBFWriteAttribute: pValue is [kind |-> "null"], [kind |-> "num", v],    *)
(* [kind |-> "chr", v] or [kind |-> "str", v], as the typed entry points   *)
(* pass it.  The result has ret, the function's return value, and ok,      *)
(* whether the record was made current.                                    *)
(***************************************************************************)
WriteAttribute(e, hEntity, iField, pValue) ==
    LET Done(h, f, rec, ret) ==
            [h |-> [h EXCEPT !.pszCurrentRecord = rec], f |-> f, ret |-> ret,
             ok |-> TRUE]
        Number(h, f, off, size, szFull) ==
            Done(h, f,
                 MemCpy(h.pszCurrentRecord, off,
                        IF Len(szFull) > size THEN SubSeq(szFull, 1, size) ELSE szFull),
                 IF Len(szFull) > size
                 THEN AtofEquals(SubSeq(szFull, 1, size), pValue.v) ELSE TRUE)
        Format(h, f, off, size, full) ==
            Number(h, f, off, size, SubSeq(full, 1, Min(Len(full), XBASE_FLD_MAX_WIDTH)))
        Typed(h, f, off, size, chType) ==
            IF pValue.kind = "null"
            THEN Done(h, f,
                      MemCpy(h.pszCurrentRecord, off,
                             Fill(size, DBFGetNullCharacter(chType))),
                      TRUE)
            ELSE IF chType = chD \/ chType = chN \/ chType = chF
            THEN Format(h, f, off, size,
                        FormatF(pValue.v,
                                IF XBASE_FLD_MAX_WIDTH + 1 - 2 < size
                                THEN XBASE_FLD_MAX_WIDTH + 1 - 2 ELSE size,
                                h.panFieldDecimals[iField + 1]))
            ELSE IF chType = chL
            THEN IF size >= 1 /\ (pValue.v = chF \/ pValue.v = chT)
                 THEN Done(h, f, MemCpy(h.pszCurrentRecord, off, <<pValue.v>>), TRUE)
                 ELSE Done(h, f, h.pszCurrentRecord, FALSE)
            ELSE IF Len(pValue.v) > size
            THEN Done(h, f, MemCpy(h.pszCurrentRecord, off, SubSeq(pValue.v, 1, size)),
                      FALSE)
            ELSE Done(h, f,
                      MemCpy(MemCpy(h.pszCurrentRecord, off, Fill(size, chSpace)),
                             off, pValue.v),
                      TRUE)
        Current(e1) ==
            IF ~e1.ok THEN [h |-> e1.h, f |-> e1.f, ret |-> FALSE, ok |-> FALSE]
            ELSE Typed(Dirty(e1.h), e1.f, e1.h.panFieldOffset[iField + 1],
                       e1.h.panFieldSize[iField + 1], e1.h.pachFieldType[iField + 1])
    IN  Current(WritePrologue(e, hEntity))

(***************************************************************************)
(* DBFWriteAttribute with a field index outside [0, nFields): the record   *)
(* is made current and marked as for any field, and then the field arrays  *)
(* are read outside their bounds.  What that read and the write that       *)
(* follows it do is undefined: oob is the outcome, the bytes that land in  *)
(* the record buffer (hit, at offset off) and the value returned.          *)
(***************************************************************************)
WriteAttributeOutOfRange(e, hEntity, oob) ==
    LET Current(e1) ==
            IF ~e1.ok THEN [h |-> e1.h, f |-> e1.f, ret |-> FALSE, ok |-> FALSE]
            ELSE [h |-> Dirty([e1.h EXCEPT
                                !.pszCurrentRecord =
                                    IF oob.off + Len(oob.hit) <= Len(@)
                                    THEN MemCpy(@, oob.off, oob.hit) ELSE @]),
                  f |-> e1.f, ret |-> oob.ret, ok |-> TRUE]
    IN  Current(WritePrologue(e, hEntity))

(***************************************************************************)
(* DBFWriteAttributeDirectly: pValue is a C string.  A negative field      *)
(* index writes no field; one at or above nFields is outside the arrays,   *)
(* with the outcome oob.                                                   *)
(***************************************************************************)
WriteAttributeDirectly(e, hEntity, iField, pValue, oob) ==
    LET Field(h, off, size) ==
            IF Len(pValue) > size
            THEN MemCpy(h.pszCurrentRecord, off, SubSeq(pValue, 1, size))
            ELSE MemCpy(MemCpy(h.pszCurrentRecord, off, Fill(size, chSpace)),
                        off, pValue)
        Current(e1) ==
            IF ~e1.ok THEN [h |-> e1.h, f |-> e1.f, ret |-> FALSE, ok |-> FALSE]
            ELSE IF iField < 0
            THEN [h |-> Dirty(e1.h), f |-> e1.f, ret |-> TRUE, ok |-> TRUE]
            ELSE IF iField >= e1.h.nFields
            THEN [h |-> Dirty([e1.h EXCEPT
                                !.pszCurrentRecord =
                                    IF oob.off + Len(oob.hit) <= Len(@)
                                    THEN MemCpy(@, oob.off, oob.hit) ELSE @]),
                  f |-> e1.f, ret |-> TRUE, ok |-> TRUE]
            ELSE [h |-> Dirty([e1.h EXCEPT
                                !.pszCurrentRecord =
                                    Field(e1.h, e1.h.panFieldOffset[iField + 1],
                                          e1.h.panFieldSize[iField + 1])]),
                  f |-> e1.f, ret |-> TRUE, ok |-> TRUE]
    IN  Current(WritePrologue(e, hEntity))

(***************************************************************************)
(* DBFWriteDateAttribute: lValue is <<>> (the null pointer) or             *)
(* [year, month, day]; the text written is "%04d%02d%02d".                 *)
(***************************************************************************)
\* n in at least w decimal digits
ZeroPadded(n, w) == Fill(IF w > Len(Digits(n)) THEN w - Len(Digits(n)) ELSE 0, chZero)
                    \o Digits(n)

WriteDateAttribute(e, iRecord, iField, lValue, oob) ==
    LET Refused == [h |-> e.h, f |-> e.f, ret |-> FALSE, ok |-> FALSE]
    IN  IF lValue = <<>> THEN Refused
        ELSE IF lValue.year < 0 \/ lValue.year > 9999 THEN Refused
        ELSE IF lValue.month < 0 \/ lValue.month > 99 THEN Refused
        ELSE IF lValue.day < 0 \/ lValue.day > 99 THEN Refused
        ELSE WriteAttributeDirectly(
                e, iRecord, iField,
                SubSeq(ZeroPadded(lValue.year, 4) \o ZeroPadded(lValue.month, 2)
                       \o ZeroPadded(lValue.day, 2), 1, 8),
                oob)

(***************************************************************************)
(* DBFWriteTuple                                                           *)
(***************************************************************************)
WriteTuple(e, hEntity, pRawTuple) ==
    LET Current(e1) ==
            IF ~e1.ok THEN [h |-> e1.h, f |-> e1.f, ret |-> FALSE, ok |-> FALSE]
            ELSE [h |-> Dirty([e1.h EXCEPT
                                !.pszCurrentRecord =
                                    MemCpy(@, 0, Bytes(pRawTuple, 0, e1.h.nRecordLength))]),
                  f |-> e1.f, ret |-> TRUE, ok |-> TRUE]
    IN  Current(WritePrologue(e, hEntity))

(***************************************************************************)
(* DBFReadTuple: the result has out, the record bytes returned (<<>> for   *)
(* the null pointer).                                                      *)
(***************************************************************************)
ReadTuple(e, hEntity) ==
    LET Loaded(e1) ==
            IF ~e1.ok THEN [h |-> e1.h, f |-> e1.f, ret |-> FALSE, out |-> <<>>]
            ELSE [h |-> e1.h, f |-> e1.f, ret |-> TRUE,
                  out |-> Bytes(e1.h.pszCurrentRecord, 0, e1.h.nRecordLength)]
    IN  IF hEntity < 0 \/ hEntity >= e.h.nRecords
        THEN [h |-> e.h, f |-> e.f, ret |-> FALSE, out |-> <<>>]
        ELSE Loaded(DBFLoadRecord(e, hEntity))

(***************************************************************************)
(* DBFReadAttribute with chReqType 'C' (DBFReadStringAttribute): ret is    *)
(* FALSE for the null pointer, out the C string returned.                  *)
(***************************************************************************)
ReadAttribute(e, hEntity, iField) ==
    LET Field(h, f, pszWorkField) ==
            [h |-> h, f |-> f, ret |-> TRUE,
             out |-> IF TRIM_DBF_WHITESPACE THEN Trim(pszWorkField)
                     ELSE pszWorkField]
        Loaded(e1) ==
            IF ~e1.ok THEN [h |-> e1.h, f |-> e1.f, ret |-> FALSE, out |-> <<>>]
            ELSE Field(e1.h, e1.f,
                       CStr(Bytes(e1.h.pszCurrentRecord,
                                  e1.h.panFieldOffset[iField + 1],
                                  e1.h.panFieldSize[iField + 1])))
    IN  IF hEntity < 0 \/ hEntity >= e.h.nRecords
        THEN [h |-> e.h, f |-> e.f, ret |-> FALSE, out |-> <<>>]
        ELSE IF iField < 0 \/ iField >= e.h.nFields
        THEN [h |-> e.h, f |-> e.f, ret |-> FALSE, out |-> <<>>]
        ELSE Loaded(DBFLoadRecord(e, hEntity))

(***************************************************************************)
(* DBFIsAttributeNULL: ret is the answer.                                  *)
(***************************************************************************)
IsAttributeNULL(e, iRecord, iField) ==
    LET Value(r) ==
            [h |-> r.h, f |-> r.f, out |-> r.out,
             ret |-> IF ~r.ret THEN TRUE
                     ELSE DBFIsValueNULL(r.h.pachFieldType[iField + 1], r.out,
                                         r.h.panFieldSize[iField + 1])]
    IN  Value(ReadAttribute(e, iRecord, iField))

(***************************************************************************)
(* DBFReadDateAttribute: the field read as a string and scanned with       *)
(* "%4d%2d%2d".  out is <<year, month, day>>, all 0 when the field cannot  *)
(* be read or fewer than three numbers are scanned.                        *)
(***************************************************************************)
RECURSIVE SkipWhite(_)
SkipWhite(sz) == IF Len(sz) > 0 /\ IsSpace(sz[1]) THEN SkipWhite(Tail(sz)) ELSE sz

\* "%<w>d": white space, then at most w bytes of an optional sign and digits
ScanInt(sz, w) ==
    LET s0 == SkipWhite(sz)
        signed == Len(s0) > 0 /\ (s0[1] = chMinus \/ s0[1] = chPlus)
        s1 == IF signed THEN Tail(s0) ELSE s0
        w1 == IF signed THEN w - 1 ELSE w
        field == SubSeq(s1, 1, IF w1 < Len(s1) THEN w1 ELSE Len(s1))
        ip == ParseDigits(field, 0)
        used == Len(field) - Len(ip[2])
    IN  [ok |-> used > 0,
         val |-> IF signed /\ s0[1] = chMinus THEN -ip[1] ELSE ip[1],
         rest |-> SubSeq(s1, used + 1, Len(s1))]

ScanDate(sz) ==
    LET y == ScanInt(sz, 4)
        m == ScanInt(y.rest, 2)
        d == ScanInt(m.rest, 2)
    IN  IF y.ok /\ m.ok /\ d.ok THEN <<y.val, m.val, d.val>> ELSE <<0, 0, 0>>

ReadDateAttribute(e, iRecord, iField) ==
    LET Value(r) ==
            [h |-> r.h, f |-> r.f, ret |-> r.ret,
             out |-> IF ~r.ret THEN <<0, 0, 0>> ELSE ScanDate(r.out)]
    IN  Value(ReadAttribute(e, iRecord, iField))

(***************************************************************************)
(* DBFIsRecordDeleted and DBFMarkRecordDeleted                             *)
(***************************************************************************)
IsRecordDeleted(e, iShape) ==
    LET Loaded(e1) ==
            IF ~e1.ok THEN [h |-> e1.h, f |-> e1.f, ret |-> FALSE]
            ELSE [h |-> e1.h, f |-> e1.f, ret |-> e1.h.pszCurrentRecord[1] = chStar]
    IN  IF iShape < 0 \/ iShape >= e.h.nRecords
        THEN [h |-> e.h, f |-> e.f, ret |-> TRUE]
        ELSE Loaded(DBFLoadRecord(e, iShape))

\* a faulty mark that sets the deleted flag whatever it is asked
MarkRecordDeleted_Always(e, iShape, bIsDeleted) ==
    LET Loaded(e1) ==
            IF ~e1.ok THEN [h |-> e1.h, f |-> e1.f, ret |-> FALSE]
            ELSE [h |-> Dirty([e1.h EXCEPT !.pszCurrentRecord[1] = chStar]),
                  f |-> e1.f, ret |-> TRUE]
    IN  IF iShape < 0 \/ iShape >= e.h.nRecords
        THEN [h |-> e.h, f |-> e.f, ret |-> FALSE]
        ELSE Loaded(DBFLoadRecord(e, iShape))

MarkRecordDeleted(e, iShape, bIsDeleted) ==
    LET chNewFlag == IF bIsDeleted THEN chStar ELSE chSpace
        Loaded(e1) ==
            IF ~e1.ok THEN [h |-> e1.h, f |-> e1.f, ret |-> FALSE]
            ELSE IF e1.h.pszCurrentRecord[1] # chNewFlag
            THEN [h |-> Dirty([e1.h EXCEPT !.pszCurrentRecord[1] = chNewFlag]),
                  f |-> e1.f, ret |-> TRUE]
            ELSE [h |-> e1.h, f |-> e1.f, ret |-> TRUE]
    IN  IF iShape < 0 \/ iShape >= e.h.nRecords
        THEN [h |-> e.h, f |-> e.f, ret |-> FALSE]
        ELSE Loaded(DBFLoadRecord(e, iShape))

(***************************************************************************)
(* DBFDeleteField                                                          *)
(***************************************************************************)
\* sequence q without its element at index i (from 0)
RemoveAt(q, i) == SubSeq(q, 1, i) \o SubSeq(q, i + 2, Len(q))

\* a faulty record loop that writes the start of the old record and so
\* keeps the bytes of the deleted field
RECURSIVE DeleteFieldShift_KeepField(_, _, _, _, _, _, _)
DeleteFieldShift_KeepField(h, f, iRecord, nOldRecordLength, nOldHeaderLength, nDeletedFieldOffset, nDeletedFieldSize) ==
    LET Move(f2, pszRecord) ==
            DeleteFieldShift_KeepField(
                h,
                FWrite(FSeek(f2, RecordOffset(h, iRecord)),
                       Bytes(pszRecord, 0, h.nRecordLength)),
                iRecord + 1, nOldRecordLength, nOldHeaderLength,
                nDeletedFieldOffset, nDeletedFieldSize)
        Read(f1) ==
            IF ~FReadOk(f1, nOldRecordLength)
            THEN [f |-> FReadAdv(f1, nOldRecordLength), ok |-> FALSE]
            ELSE Move(FReadAdv(f1, nOldRecordLength), FReadBytes(f1, nOldRecordLength))
    IN  IF iRecord >= h.nRecords THEN [f |-> f, ok |-> TRUE]
        ELSE Read(FSeek(f, nOldRecordLength * iRecord + nOldHeaderLength))

\* the record loop: records move from first to last, in two writes each
RECURSIVE DeleteFieldShift(_, _, _, _, _, _, _)
DeleteFieldShift(h, f, iRecord, nOldRecordLength, nOldHeaderLength, nDeletedFieldOffset, nDeletedFieldSize) ==
    LET Move(f2, pszRecord) ==
            DeleteFieldShift(
                h,
                FWrite(FWrite(FSeek(f2, RecordOffset(h, iRecord)),
                              Bytes(pszRecord, 0, nDeletedFieldOffset)),
                       Bytes(pszRecord, nDeletedFieldOffset + nDeletedFieldSize,
                             nOldRecordLength - nDeletedFieldOffset
                             - nDeletedFieldSize)),
                iRecord + 1, nOldRecordLength, nOldHeaderLength,
                nDeletedFieldOffset, nDeletedFieldSize)
        Read(f1) ==
            IF ~FReadOk(f1, nOldRecordLength)
            THEN [f |-> FReadAdv(f1, nOldRecordLength), ok |-> FALSE]
            ELSE Move(FReadAdv(f1, nOldRecordLength), FReadBytes(f1, nOldRecordLength))
    IN  IF iRecord >= h.nRecords THEN [f |-> f, ok |-> TRUE]
        ELSE Read(FSeek(f, nOldRecordLength * iRecord + nOldHeaderLength))

DeleteField(e, iField) ==
    LET Shifted(h2, r) ==
            IF ~r.ok THEN [h |-> h2, f |-> r.f, ret |-> FALSE]
            ELSE [h |-> [h2 EXCEPT !.nCurrentRecord = -1,
                                   !.bCurrentRecordModified = FALSE,
                                   !.bUpdated = TRUE],
                  f |-> IF h2.bWriteEndOfFileChar
                        THEN FWrite(FSeek(r.f, RecordOffset(h2, h2.nRecords)),
                                    <<END_OF_FILE_CHARACTER>>)
                        ELSE r.f,
                  ret |-> TRUE]
        Updated(h0, e2) ==
            Shifted(e2.h,
                    DeleteFieldShift(e2.h, e2.f, 0, h0.nRecordLength, h0.nHeaderLength,
                                     h0.panFieldOffset[iField + 1],
                                     h0.panFieldSize[iField + 1]))
        Shrunk(h0, h1, f) ==
            IF h1.bNoHeader /\ h1.nRecords = 0
            THEN [h |-> h1, f |-> f, ret |-> TRUE]
            ELSE Updated(h0, DBFUpdateHeader(Env([h1 EXCEPT !.bNoHeader = TRUE], f, TRUE)))
        Shrink(h0, f, nDeletedFieldSize) ==
            Shrunk(h0,
                   [h0 EXCEPT
                     !.panFieldOffset =
                         [i \in 1..(h0.nFields - 1) |->
                             IF i <= iField THEN @[i]
                             ELSE @[i + 1] - nDeletedFieldSize],
                     !.panFieldSize = RemoveAt(@, iField),
                     !.panFieldDecimals = RemoveAt(@, iField),
                     !.pachFieldType = RemoveAt(@, iField),
                     !.nFields = h0.nFields - 1,
                     !.nHeaderLength = @ - XBASE_FLDHDR_SZ,
                     !.nRecordLength = @ - nDeletedFieldSize,
                     !.pszHeader =
                         Bytes(@, 0, iField * XBASE_FLDHDR_SZ)
                         \o Bytes(@, (iField + 1) * XBASE_FLDHDR_SZ,
                                  (h0.nFields - 1 - iField) * XBASE_FLDHDR_SZ),
                     !.pszCurrentRecord =
                         Realloc(@, h0.nRecordLength - nDeletedFieldSize)],
                   f)
        Flushed(e1) ==
            IF ~e1.ok THEN [h |-> e1.h, f |-> e1.f, ret |-> FALSE]
            ELSE Shrink(e1.h, Rewriting(e1.f, e1.h), e1.h.panFieldSize[iField + 1])
    IN  IF iField < 0 \/ iField >= e.h.nFields
        THEN [h |-> e.h, f |-> e.f, ret |-> FALSE]
        ELSE Flushed(DBFFlushRecord(e))

(***************************************************************************)
(* DBFReorderFields: panMap is a permutation of 0..nFields-1, as the       *)
(* function's comment requires.                                            *)
(***************************************************************************)
\* one record in the new order; pszRecordNew holds what the scratch buffer
\* held before (the bytes no field covers keep it)
RECURSIVE ReorderRecord_NoMap(_, _, _, _, _, _)
\* a faulty reassembly that takes field i itself instead of field panMap[i]
ReorderRecord_NoMap(h, panMap, panFieldOffsetNew, pszRecord, pszRecordNew, i) ==
    IF i >= h.nFields THEN pszRecordNew
    ELSE ReorderRecord_NoMap(h, panMap, panFieldOffsetNew, pszRecord,
            MemCpy(pszRecordNew, panFieldOffsetNew[i + 1],
                   Bytes(pszRecord, h.panFieldOffset[i + 1],
                         h.panFieldSize[i + 1])),
            i + 1)

RECURSIVE ReorderRecord_OldOffset(_, _, _, _, _, _)
\* a faulty reassembly that puts field panMap[i] where field i was
ReorderRecord_OldOffset(h, panMap, panFieldOffsetNew, pszRecord, pszRecordNew, i) ==
    IF i >= h.nFields THEN pszRecordNew
    ELSE ReorderRecord_OldOffset(h, panMap, panFieldOffsetNew, pszRecord,
            MemCpy(pszRecordNew, h.panFieldOffset[i + 1],
                   Bytes(pszRecord, h.panFieldOffset[panMap[i + 1] + 1],
                         h.panFieldSize[panMap[i + 1] + 1])),
            i + 1)

RECURSIVE ReorderRecord(_, _, _, _, _, _)
ReorderRecord(h, panMap, panFieldOffsetNew, pszRecord, pszRecordNew, i) ==
    IF i >= h.nFields THEN pszRecordNew
    ELSE ReorderRecord(h, panMap, panFieldOffsetNew, pszRecord,
            MemCpy(pszRecordNew, panFieldOffsetNew[i + 1],
                   Bytes(pszRecord, h.panFieldOffset[panMap[i + 1] + 1],
                         h.panFieldSize[panMap[i + 1] + 1])),
            i + 1)

RECURSIVE ReorderShift(_, _, _, _, _, _)
ReorderShift(h, f, panMap, panFieldOffsetNew, pszRecordNew, iRecord) ==
    LET Write(f2, new) ==
            ReorderShift(h, FWrite(FSeek(f2, RecordOffset(h, iRecord)), new),
                         panMap, panFieldOffsetNew, new, iRecord + 1)
        Assemble(f2, pszRecord) ==
            Write(f2, ReorderRecord(h, panMap, panFieldOffsetNew, pszRecord,
                                    MemCpy(pszRecordNew, 0, <<pszRecord[1]>>), 0))
        Read(f1) ==
            IF ~FReadOk(f1, h.nRecordLength)
            THEN [f |-> FReadAdv(f1, h.nRecordLength), ok |-> FALSE]
            ELSE Assemble(FReadAdv(f1, h.nRecordLength), FReadBytes(f1, h.nRecordLength))
    IN  IF iRecord >= h.nRecords THEN [f |-> f, ok |-> TRUE]
        ELSE Read(FSeek(f, RecordOffset(h, iRecord)))

\* junk: the byte value of freshly allocated memory
ReorderFields(e, panMap, junk) ==
    LET Commit(h, panFieldOffsetNew, panFieldSizeNew, h0) ==
            [h EXCEPT !.panFieldOffset = panFieldOffsetNew,
                      !.panFieldSize = panFieldSizeNew,
                      !.panFieldDecimals =
                          [i \in 1..h0.nFields |-> h0.panFieldDecimals[panMap[i] + 1]],
                      !.pachFieldType =
                          [i \in 1..h0.nFields |-> h0.pachFieldType[panMap[i] + 1]],
                      !.nCurrentRecord = -1,
                      !.bCurrentRecordModified = FALSE,
                      !.bUpdated = TRUE]
        Shifted(h0, h2, r, panFieldOffsetNew, panFieldSizeNew) ==
            IF ~r.ok
            THEN [h |-> [h2 EXCEPT !.nCurrentRecord = -1,
                                   !.bCurrentRecordModified = FALSE,
                                   !.bUpdated = FALSE],
                  f |-> r.f, ret |-> FALSE]
            ELSE [h |-> Commit(h2, panFieldOffsetNew, panFieldSizeNew, h0),
                  f |-> r.f, ret |-> TRUE]
        Updated(h0, e2, panFieldOffsetNew, panFieldSizeNew) ==
            Shifted(h0, e2.h,
                    ReorderShift(e2.h, e2.f, panMap, panFieldOffsetNew,
                                 Fill(e2.h.nRecordLength, junk), 0),
                    panFieldOffsetNew, panFieldSizeNew)
        Mapped(h0, h1, f, panFieldOffsetNew, panFieldSizeNew) ==
            IF h1.bNoHeader /\ h1.nRecords = 0
            THEN [h |-> Commit(h1, panFieldOffsetNew, panFieldSizeNew, h0),
                  f |-> f, ret |-> TRUE]
            ELSE Updated(h0,
                         DBFUpdateHeader(Env([h1 EXCEPT !.bNoHeader = TRUE], f, TRUE)),
                         panFieldOffsetNew, panFieldSizeNew)
        Sized(h0, f, panFieldSizeNew) ==
            Mapped(h0,
                   [h0 EXCEPT !.pszHeader =
                       [b \in 1..(h0.nFields * XBASE_FLDHDR_SZ) |->
                           FInfo(h0.pszHeader, panMap[((b - 1) \div XBASE_FLDHDR_SZ) + 1])
                               [((b - 1) % XBASE_FLDHDR_SZ) + 1]]],
                   f,
                   [i \in 1..h0.nFields |-> 1 + SumSizes(panFieldSizeNew, i - 1)],
                   panFieldSizeNew)
        Flushed(e1) ==
            IF ~e1.ok THEN [h |-> e1.h, f |-> e1.f, ret |-> FALSE]
            ELSE Sized(e1.h, e1.f,
                       [i \in 1..e1.h.nFields |-> e1.h.panFieldSize[panMap[i] + 1]])
    IN  IF e.h.nFields = 0 THEN [h |-> e.h, f |-> e.f, ret |-> TRUE]
        ELSE Flushed(DBFFlushRecord(e))

(***************************************************************************)
(* DBFAlterFieldDefn                                                       *)
(***************************************************************************)
\* memmove(buf + dst, buf + src, n)
MemMove(buf, dst, src, n) == MemCpy(buf, dst, Bytes(buf, src, n))

IsNumericOrDate(chType) == chType = chN \/ chType = chF \/ chType = chD

\* a faulty truncation that never strips the leading spaces of a number
AlterRecordShrink_KeepLeft(pszRecord, chOldType, chFieldFill, nOffset, nOldWidth, nWidth, nOldRecordLength) ==
    LET Refill(r2) ==
            IF DBFIsValueNULL(chOldType, CStr(Bytes(pszRecord, nOffset, nOldWidth)),
                              nOldWidth)
            THEN MemCpy(r2, nOffset, Fill(nWidth, chFieldFill)) ELSE r2
    IN  Refill(IF nWidth # nOldWidth /\ nOffset + nOldWidth < nOldRecordLength
               THEN MemMove(pszRecord, nOffset + nWidth, nOffset + nOldWidth,
                            nOldRecordLength - (nOffset + nOldWidth))
               ELSE pszRecord)

\* one record of the front-to-back loop (the width shrinks, or only the type
\* changes); pszRecord holds the old record
AlterRecordShrink(pszRecord, chOldType, chFieldFill, nOffset, nOldWidth, nWidth, nOldRecordLength) ==
    LET Refill(r2) ==
            IF DBFIsValueNULL(chOldType, CStr(Bytes(pszRecord, nOffset, nOldWidth)),
                              nOldWidth)
            THEN MemCpy(r2, nOffset, Fill(nWidth, chFieldFill)) ELSE r2
        MoveRest(r1) ==
            Refill(IF nWidth # nOldWidth /\ nOffset + nOldWidth < nOldRecordLength
                   THEN MemMove(r1, nOffset + nWidth, nOffset + nOldWidth,
                                nOldRecordLength - (nOffset + nOldWidth))
                   ELSE r1)
    IN  MoveRest(IF nWidth # nOldWidth /\ IsNumericOrDate(chOldType)
                    /\ pszRecord[nOffset + 1] = chSpace
                 THEN MemMove(pszRecord, nOffset, nOffset + nOldWidth - nWidth, nWidth)
                 ELSE pszRecord)

\* a faulty growth that leaves the bytes after the field where they were
AlterRecordGrow_NoMove(pszRecord, chOldType, chFieldFill, nOffset, nOldWidth, nWidth, nOldRecordLength) ==
    LET Refill(r1) ==
            IF DBFIsValueNULL(chOldType, CStr(Bytes(pszRecord, nOffset, nOldWidth)),
                              nOldWidth)
            THEN MemCpy(r1, nOffset, Fill(nWidth, chFieldFill))
            ELSE IF chOldType = chN \/ chOldType = chF
            THEN MemCpy(MemMove(r1, nOffset + nWidth - nOldWidth, nOffset, nOldWidth),
                        nOffset, Fill(nWidth - nOldWidth, chSpace))
            ELSE MemCpy(r1, nOffset + nOldWidth, Fill(nWidth - nOldWidth, chSpace))
    IN  Refill(pszRecord)

\* one record of the back-to-front loop (the width grows); pszRecord holds
\* the old record followed by the nWidth - nOldWidth bytes allocated for
\* the growth
AlterRecordGrow(pszRecord, chOldType, chFieldFill, nOffset, nOldWidth, nWidth, nOldRecordLength) ==
    LET Refill(r1) ==
            IF DBFIsValueNULL(chOldType, CStr(Bytes(pszRecord, nOffset, nOldWidth)),
                              nOldWidth)
            THEN MemCpy(r1, nOffset, Fill(nWidth, chFieldFill))
            ELSE IF chOldType = chN \/ chOldType = chF
            THEN MemCpy(MemMove(r1, nOffset + nWidth - nOldWidth, nOffset, nOldWidth),
                        nOffset, Fill(nWidth - nOldWidth, chSpace))
            ELSE MemCpy(r1, nOffset + nOldWidth, Fill(nWidth - nOldWidth, chSpace))
    IN  Refill(IF nOffset + nOldWidth < nOldRecordLength
               THEN MemMove(pszRecord, nOffset + nWidth, nOffset + nOldWidth,
                            nOldRecordLength - (nOffset + nOldWidth))
               ELSE pszRecord)

\* the record loops: iRecord runs by step (+1 from 0, or -1 from the last);
\* pszRecord is the scratch buffer, which keeps what the last round left;
\* a holds the constants of the call
RECURSIVE AlterShift(_, _, _, _, _, _)
AlterShift(h, f, iRecord, step, pszRecord, a) ==
    LET Write(f2, new) ==
            AlterShift(h,
                       FWrite(FSeek(f2, RecordOffset(h, iRecord)),
                              Bytes(new, 0, h.nRecordLength)),
                       iRecord + step, step, new, a)
        Convert(f2, loaded) ==
            Write(f2,
                  IF step > 0
                  THEN AlterRecordShrink(loaded, a.chOldType, a.chFieldFill, a.nOffset,
                                         a.nOldWidth, a.nWidth, a.nOldRecordLength)
                  ELSE AlterRecordGrow(loaded, a.chOldType, a.chFieldFill, a.nOffset,
                                       a.nOldWidth, a.nWidth, a.nOldRecordLength))
        Read(f1) ==
            IF ~FReadOk(f1, a.nOldRecordLength)
            THEN [f |-> FReadAdv(f1, a.nOldRecordLength), ok |-> FALSE]
            ELSE Convert(FReadAdv(f1, a.nOldRecordLength),
                         MemCpy(pszRecord, 0, FReadBytes(f1, a.nOldRecordLength)))
    IN  IF iRecord < 0 \/ iRecord >= h.nRecords THEN [f |-> f, ok |-> TRUE]
        ELSE Read(FSeek(f, a.nOldRecordLength * iRecord + h.nHeaderLength))

\* ret is 1 (TRUE), 0 (FALSE) or -1
AlterFieldDefn(e, iField, pszFieldName, chType, nWidthArg, nDecimals) ==
    LET nWidth == IF nWidthArg > XBASE_FLD_MAX_WIDTH THEN XBASE_FLD_MAX_WIDTH
                  ELSE nWidthArg
        Shifted(h2, r, rewrites) ==
            IF ~r.ok
            THEN [h |-> [h2 EXCEPT !.nCurrentRecord = -1,
                                   !.bCurrentRecordModified = TRUE,
                                   !.bUpdated = FALSE],
                  f |-> r.f, ret |-> 0]
            ELSE [h |-> [h2 EXCEPT !.nCurrentRecord = -1,
                                   !.bCurrentRecordModified = FALSE,
                                   !.bUpdated = TRUE],
                  f |-> IF rewrites /\ h2.bWriteEndOfFileChar
                        THEN FWrite(FSeek(r.f, RecordOffset(h2, h2.nRecords)),
                                    <<END_OF_FILE_CHARACTER>>)
                        ELSE r.f,
                  ret |-> 1]
        Updated(e2, a, d) ==
            Shifted(e2.h,
                    IF d = 0 /\ chType = a.chOldType THEN [f |-> e2.f, ok |-> TRUE]
                    ELSE AlterShift(e2.h, e2.f,
                                    IF d > 0 THEN e2.h.nRecords - 1 ELSE 0,
                                    IF d > 0 THEN -1 ELSE 1,
                                    Fill(a.nOldRecordLength + (IF d > 0 THEN d ELSE 0), 0),
                                    a),
                    d # 0 \/ chType # a.chOldType)
        Altered(h1, f, a, d) ==
            IF h1.bNoHeader /\ h1.nRecords = 0
            THEN [h |-> h1, f |-> f, ret |-> 1]
            ELSE Updated(DBFUpdateHeader(Env([h1 EXCEPT !.bNoHeader = TRUE], f, TRUE)),
                         a, d)
        Alter(h0, f, a, d) ==
            Altered([h0 EXCEPT
                      !.pszCurrentRecord =
                          IF d # 0 THEN Realloc(@, h0.nRecordLength + d) ELSE @,
                      !.panFieldSize[iField + 1] = nWidth,
                      !.panFieldDecimals[iField + 1] = nDecimals,
                      !.pachFieldType[iField + 1] = chType,
                      !.pszHeader =
                          MemCpy(@, XBASE_FLDHDR_SZ * iField,
                                 FieldDescriptor(pszFieldName, chType, nWidth, nDecimals)),
                      !.panFieldOffset =
                          [i \in 1..h0.nFields |-> IF i > iField + 1 THEN @[i] + d ELSE @[i]],
                      !.nRecordLength = @ + d],
                    f, a, d)
        Flushed(e1) ==
            IF ~e1.ok THEN [h |-> e1.h, f |-> e1.f, ret |-> 0]
            ELSE IF nWidthArg < 1 THEN [h |-> e1.h, f |-> e1.f, ret |-> -1]
            ELSE Alter(e1.h, Rewriting(e1.f, e1.h),
                       [chFieldFill |-> DBFGetNullCharacter(chType),
                        chOldType |-> e1.h.pachFieldType[iField + 1],
                        nOffset |-> e1.h.panFieldOffset[iField + 1],
                        nOldWidth |-> e1.h.panFieldSize[iField + 1],
                        nWidth |-> nWidth,
                        nOldRecordLength |-> e1.h.nRecordLength],
                       nWidth - e1.h.panFieldSize[iField + 1])
    IN  IF iField < 0 \/ iField >= e.h.nFields THEN [h |-> e.h, f |-> e.f, ret |-> 0]
        ELSE Flushed(DBFFlushRecord(e))

(***************************************************************************)
(* The state machine.  One action per API function; E is the environment   *)
(* of the open handle.                                                     *)
(***************************************************************************)
MaxRecords == 2
MaxFields == 2
MaxCalls == 4

\* ---- byte strings in pages ---------------------------------------------
PageSize == 4 * 256

Pages(bytes) ==
    [j \in 1..((Len(bytes) + PageSize - 1) \div PageSize) |->
        SubSeq(bytes, (j - 1) * PageSize + 1, Min(j * PageSize, Len(bytes)))]

Whole(pages) ==
    [i \in 1..(IF pages = <<>> THEN 0
               ELSE (Len(pages) - 1) * PageSize + Len(pages[Len(pages)])) |->
        pages[((i - 1) \div PageSize) + 1][((i - 1) % PageSize) + 1]]

Paged(h) == [h EXCEPT !.pszHeader = Pages(@), !.pszCurrentRecord = Pages(@)]

\* the open handle and its stream
H == [psDBF[1] EXCEPT !.pszHeader = Whole(@), !.pszCurrentRecord = Whole(@)]
fp == [disk EXCEPT !.data = Whole(@)]
E == Env(H, Begin(fp), TRUE)
IsOpen == psDBF # NULL

B2I(b) == IF b THEN 1 ELSE 0

\* the record of a call: its name, arguments and results, and the cache it
\* found (cur, the cached record, and dirty, whether it had unsaved changes)
\* and the record count it found (n); arg is the value or the field
\* definition passed, prev the call before
Call(op, rec, fld, ret, out) ==
    [op |-> op, rec |-> rec, fld |-> fld, ret |-> ret, out |-> out,
     arg |-> <<>>,
     cur |-> IF IsOpen THEN psDBF[1].nCurrentRecord ELSE -1,
     dirty |-> IsOpen /\ psDBF[1].bCurrentRecordModified /\ psDBF[1].nCurrentRecord > -1,
     n |-> IF IsOpen THEN psDBF[1].nRecords ELSE 0,
     prev |-> <<>>]

\* the call with the value or definition it was given
With(call, arg) == [call EXCEPT !.arg = arg]

\* the call, with the one before it
After(call) == [call EXCEPT !.prev = <<last.op, last.rec, last.fld, last.arg>>]

NothingWritten == [i \in 0..(MaxRecords + 1) |-> <<>>]

NoValues == [i \in 0..(MaxRecords + 1) |-> [k \in 0..MaxFields |-> <<>>]]

\* the typed values known to be in the table after the call that returned r
NextValues(r, call) ==
    CASE call.op = "DBFWriteAttribute" ->
            IF r.ok /\ call.fld \in 0..MaxFields
            THEN [values EXCEPT ![call.rec][call.fld] =
                                    IF call.ret = 1 THEN call.arg ELSE <<>>]
            ELSE values
      [] call.op = "DBFWriteDateAttribute" ->
            IF r.ok /\ call.fld \in 0..MaxFields
            THEN [values EXCEPT ![call.rec][call.fld] = <<>>]
            ELSE values
      [] call.op = "DBFWriteTuple" ->
            IF r.ok THEN [values EXCEPT ![call.rec] = [k \in 0..MaxFields |-> <<>>]]
            ELSE values
      [] call.op \in {"DBFAddNativeFieldType", "DBFDeleteField", "DBFReorderFields",
                      "DBFAlterFieldDefn"} -> NoValues
      [] OTHER -> values

\* the buffer holds a whole record (it is a null pointer on a created table
\* that never had a field)
BufferAllocated(h) == Len(h.pszCurrentRecord) >= h.nRecordLength

CurrentRecordBytes(h) == Bytes(h.pszCurrentRecord, 0, h.nRecordLength)

\* ---- files found on disk before the first call ------------------------
Descriptors(fields) ==
    [b \in 1..(Len(fields) * XBASE_FLDHDR_SZ) |->
        FieldDescriptor(fields[((b - 1) \div XBASE_FLDHDR_SZ) + 1].name,
                        fields[((b - 1) \div XBASE_FLDHDR_SZ) + 1].type,
                        fields[((b - 1) \div XBASE_FLDHDR_SZ) + 1].width,
                        fields[((b - 1) \div XBASE_FLDHDR_SZ) + 1].dec)
            [((b - 1) % XBASE_FLDHDR_SZ) + 1]]

RECURSIVE Concat(_)
Concat(recs) == IF recs = <<>> THEN <<>> ELSE Head(recs) \o Concat(Tail(recs))

\* a .dbf file with the given descriptors, the record length nRecLen stated
\* in its header, and the given records
DbfImage(fields, nRecLen, recs) ==
    LET nHeadLen == XBASE_FILEHDR_SZ + XBASE_FLDHDR_SZ * Len(fields) + 1
        hdr == [i \in 1..XBASE_FILEHDR_SZ |->
                    CASE i = 1 -> 3
                      [] i = 2 -> 95 [] i = 3 -> 7 [] i = 4 -> 26
                      [] i = 5 -> Len(recs)
                      [] i = 9 -> nHeadLen % 256
                      [] i = 10 -> nHeadLen \div 256
                      [] i = 11 -> nRecLen % 256
                      [] i = 12 -> nRecLen \div 256
                      [] i = 30 -> 87
                      [] OTHER -> 0]
    IN  hdr \o Descriptors(fields) \o <<HEADER_RECORD_TERMINATOR>>
        \o Concat(recs) \o <<END_OF_FILE_CHARACTER>>

FieldDef(name, type, width, dec) ==
    [name |-> name, type |-> type, width |-> width, dec |-> dec]

\* "N1": N(2,0); "C1": C(1); "D1": D(2); "L1": L(1)
DefN == FieldDef(<<78, 49>>, chN, 2, 0)
DefC == FieldDef(<<67, 49>>, chC, 1, 0)
DefD == FieldDef(<<68, 49>>, chD, 2, 0)
DefL == FieldDef(<<76, 49>>, chL, 1, 0)

\* two records " 7x" and deleted "**y" of an N(2) and a C(1) field
ImageNC == DbfImage(<<DefN, DefC>>, 4,
                    << <<chSpace, chSpace, 55, 120>>, <<chStar, chStar, chStar, 121>> >>)

\* one record of one C(1) field in records of 3 bytes: the header's record
\* length leaves one byte no field covers
ImageSlack == DbfImage(<<DefC>>, 3, << <<chSpace, 120, 122>> >>)

InitialFiles == {<<>>, ImageNC, ImageSlack}

Init ==
    /\ psDBF = NULL
    /\ disk \in {Stream(Pages(d)) : d \in InitialFiles}
    /\ last = Call("none", -1, -1, 0, <<>>)
    /\ written = NothingWritten
    /\ values = NoValues
    /\ nCalls = 0
    /\ cpg = NULL

\* ---- create, open, close ----------------------------------------------
\* every call counts against the bound on the length of a run
Counted == nCalls < MaxCalls /\ nCalls' = nCalls + 1

\* DBFCreateEx(pszFilename, pszCodePage)
DBFCreateEx(pszCodePage) ==
    /\ ~IsOpen /\ Counted
    /\ psDBF' = <<Paged(CreatedHandle(pszCodePage))>>
    /\ disk' = Stream(<<>>)
    /\ last' = After(With(Call("DBFCreate", -1, -1, 1, <<>>), pszCodePage))
    /\ written' = NothingWritten
    /\ values' = NoValues
    /\ cpg' = CreatedSidecar(pszCodePage)

\* DBFCreate(pszFilename): the code page "LDID/87"
DBFCreate == DBFCreateEx(<<LDID \o <<56, 55>>>>)

\* DBFOpenLL(pszFilename, pszAccess, psHooks); bFound is whether the FOpen
\* hook finds the .dbf file
DBFOpenLL(pszAccess, bFound) ==
    LET Return(r) ==
            /\ psDBF' = IF r.ps = NULL THEN NULL ELSE <<Paged(r.ps[1])>>
            /\ disk' = IF r.ps = NULL THEN Stream(disk.data)
                        ELSE [Stream(disk.data) EXCEPT
                                !.pos = OpenedPos(fp.data), !.io = "read",
                                !.used = TRUE]
            /\ last' = After(With(Call("DBFOpen", -1, -1, B2I(r.ps # NULL), r.hooks),
                                  <<pszAccess, bFound>>))
            /\ written' = NothingWritten
            /\ values' = NoValues
            /\ cpg' = cpg
    IN  ~IsOpen /\ Counted /\ Return(OpenLL(pszAccess, bFound, fp.data, cpg))

\* DBFOpen(pszFilename, "rb+") of the file on disk
DBFOpen == DBFOpenLL("rb+", TRUE)

DBFClose ==
    /\ IsOpen /\ Counted
    /\ psDBF' = NULL
    /\ disk' = [Stream(Pages(CloseHandle(E).f.data)) EXCEPT
                    !.used = CloseHandle(E).f.used,
                    !.err = CloseHandle(E).f.err,
                    !.unsafe = CloseHandle(E).f.unsafe,
                    !.elided = CloseHandle(E).f.elided,
                    !.marker = CloseHandle(E).f.marker,
                    !.lost = CloseHandle(E).f.lost]
    /\ last' = After(Call("DBFClose", H.nRecords, -1, 1, <<>>))
    /\ written' = NothingWritten
    /\ values' = NoValues
    /\ cpg' = cpg

\* ---- record operations ------------------------------------------------
\* the call returns r; call is its record and w what has been written since
Step(r, call, w) ==
    /\ Counted
    /\ psDBF' = <<Paged(r.h)>>
    /\ disk' = [r.f EXCEPT !.data = Pages(@)]
    /\ last' = After(call)
    /\ written' = w
    /\ values' = NextValues(r, call)
    /\ cpg' = cpg

DBFWriteAttribute(hEntity, iField, pValue) ==
    LET Return(r) ==
            Step(r, With(Call("DBFWriteAttribute", hEntity, iField, B2I(r.ret), <<>>),
                         pValue),
                 IF r.ok THEN [written EXCEPT ![hEntity] = CurrentRecordBytes(r.h)]
                 ELSE written)
    IN  IsOpen /\ BufferAllocated(H)
        /\ Return(WriteAttribute(E, hEntity, iField, pValue))

\* a typed write with a field index outside [0, nFields)
DBFWriteAttributeOutOfRange(hEntity, iField, pValue, oob) ==
    LET Return(r) ==
            Step(r, With(Call("DBFWriteAttribute", hEntity, iField, B2I(r.ret), <<>>),
                         pValue),
                 IF r.ok THEN [written EXCEPT ![hEntity] = CurrentRecordBytes(r.h)]
                 ELSE written)
    IN  IsOpen /\ BufferAllocated(H) /\ (iField < 0 \/ iField >= psDBF[1].nFields)
        /\ Return(WriteAttributeOutOfRange(E, hEntity, oob))

DBFWriteDateAttribute(iRecord, iField, lValue, oob) ==
    LET Return(r) ==
            Step(r, With(Call("DBFWriteDateAttribute", iRecord, iField, B2I(r.ret), <<>>),
                         lValue),
                 IF r.ok THEN [written EXCEPT ![iRecord] = CurrentRecordBytes(r.h)]
                 ELSE written)
    IN  IsOpen /\ BufferAllocated(H)
        /\ Return(WriteDateAttribute(E, iRecord, iField, lValue, oob))

DBFReadStringAttribute(iRecord, iField) ==
    LET Return(r) ==
            Step(r, Call("DBFReadStringAttribute", iRecord, iField, B2I(r.ret), r.out),
                 written)
    IN  IsOpen /\ Return(ReadAttribute(E, iRecord, iField))

DBFWriteTuple(hEntity, pRawTuple) ==
    LET Return(r) ==
            Step(r, Call("DBFWriteTuple", hEntity, -1, B2I(r.ret), <<>>),
                 IF r.ok
                 THEN [written EXCEPT ![hEntity] = Bytes(pRawTuple, 0, H.nRecordLength)]
                 ELSE written)
    IN  IsOpen /\ BufferAllocated(H) /\ Return(WriteTuple(E, hEntity, pRawTuple))

DBFMarkRecordDeleted(iShape, bIsDeleted) ==
    LET Return(r) ==
            Step(r, With(Call("DBFMarkRecordDeleted", iShape, -1, B2I(r.ret), <<>>),
                         bIsDeleted),
                 IF r.ret THEN [written EXCEPT ![iShape] = CurrentRecordBytes(r.h)]
                 ELSE written)
    IN  IsOpen /\ Return(MarkRecordDeleted(E, iShape, bIsDeleted))

DBFReadTuple(hEntity) ==
    LET Return(r) ==
            Step(r, Call("DBFReadTuple", hEntity, -1, B2I(r.ret), r.out), written)
    IN  IsOpen /\ Return(ReadTuple(E, hEntity))

DBFIsAttributeNULL(iRecord, iField) ==
    LET Return(r) ==
            Step(r, Call("DBFIsAttributeNULL", iRecord, iField, B2I(r.ret), r.out),
                 written)
    IN  IsOpen /\ Return(IsAttributeNULL(E, iRecord, iField))

DBFReadDateAttribute(iRecord, iField) ==
    LET Return(r) ==
            Step(r, Call("DBFReadDateAttribute", iRecord, iField, B2I(r.ret), r.out),
                 written)
    IN  IsOpen /\ Return(ReadDateAttribute(E, iRecord, iField))

DBFIsRecordDeleted(iShape) ==
    LET Return(r) ==
            Step(r, Call("DBFIsRecordDeleted", iShape, -1, B2I(r.ret), <<>>), written)
    IN  IsOpen /\ Return(IsRecordDeleted(E, iShape))

DBFSetWriteEndOfFileChar(bWriteFlag) ==
    IsOpen /\ Step([h |-> [H EXCEPT !.bWriteEndOfFileChar = bWriteFlag],
                    f |-> Begin(fp)],
                   With(Call("DBFSetWriteEndOfFileChar", -1, -1, 1, <<>>), bWriteFlag),
                   written)

\* DBFUpdateHeader(psDBF), called by the application
DBFUpdateHeaderCall ==
    IsOpen /\ Step(DBFUpdateHeader(E), Call("DBFUpdateHeader", -1, -1, 1, <<>>), written)

\* DBFSetLastModifiedDate(psDBF, nYYSince1900, nMM, nDD)
DBFSetLastModifiedDate(nYYSince1900, nMM, nDD) ==
    IsOpen /\ Step([h |-> [H EXCEPT !.nUpdateYearSince1900 = nYYSince1900,
                                    !.nUpdateMonth = nMM,
                                    !.nUpdateDay = nDD],
                    f |-> Begin(fp)],
                   With(Call("DBFSetLastModifiedDate", -1, -1, 1, <<>>),
                        <<nYYSince1900, nMM, nDD>>),
                   written)

\* ---- schema mutations -------------------------------------------------
DBFAddNativeFieldType(def) ==
    LET Return(r) ==
            Step(r, With(Call("DBFAddNativeFieldType", -1, r.ret, r.ret, <<>>), def),
                 NothingWritten)
    IN  IsOpen /\ Return(AddNativeFieldType(E, def.name, def.type, def.width, def.dec))

DBFDeleteField(iField) ==
    LET Return(r) ==
            Step(r, Call("DBFDeleteField", -1, iField, B2I(r.ret), <<>>),
                 NothingWritten)
    IN  IsOpen /\ Return(DeleteField(E, iField))

DBFReorderFields(panMap, junk) ==
    LET Return(r) ==
            Step(r, Call("DBFReorderFields", -1, -1, B2I(r.ret), panMap),
                 NothingWritten)
    IN  IsOpen /\ Return(ReorderFields(E, panMap, junk))

DBFAlterFieldDefn(iField, def) ==
    LET Return(r) ==
            Step(r, With(Call("DBFAlterFieldDefn", -1, iField, r.ret,
                              IF iField >= 0 /\ iField < psDBF[1].nFields
                              THEN <<psDBF[1].pachFieldType[iField + 1],
                                     psDBF[1].panFieldSize[iField + 1]>>
                              ELSE <<>>),
                         def),
                 NothingWritten)
    IN  IsOpen /\ Return(AlterFieldDefn(E, iField, def.name, def.type, def.width, def.dec))

\* ---- inputs -----------------------------------------------------------
FieldDefs == {DefN, DefC, DefD, DefL}

\* the values the typed entry points pass for a field of the given type
ValuesFor(chType) ==
    {[kind |-> "null"]} \cup
    (IF chType = chN \/ chType = chF \/ chType = chD
     THEN {[kind |-> "num", v |-> 7]}
     ELSE IF chType = chL THEN {[kind |-> "chr", v |-> chT]}
     ELSE {[kind |-> "str", v |-> <<120>>]})

\* a raw record: live, every other byte "9"
TupleOf(h) == <<chSpace>> \o Fill(h.nRecordLength - 1, 57)

PanMaps(n) ==
    {p \in [1..n -> 0..(n - 1)] : \A i, j \in 1..n : p[i] = p[j] => i = j}

Records == 0..(psDBF[1].nRecords - 1)
Fields == 0..(psDBF[1].nFields - 1)
Writable == 0..Min(psDBF[1].nRecords, MaxRecords - 1)

Next ==
    \/ DBFCreate
    \/ DBFOpen
    \/ DBFClose
    \/ IsOpen /\ \E hEntity \in Writable, iField \in Fields :
        \E pValue \in ValuesFor(H.pachFieldType[iField + 1]) :
            DBFWriteAttribute(hEntity, iField, pValue)
    \/ IsOpen /\ \E hEntity \in Writable : DBFWriteTuple(hEntity, TupleOf(H))
    \/ IsOpen /\ \E iShape \in Records, b \in BOOLEAN : DBFMarkRecordDeleted(iShape, b)
    \/ IsOpen /\ \E hEntity \in Records : DBFReadTuple(hEntity)
    \/ IsOpen /\ H.nFields < MaxFields
       /\ \E def \in FieldDefs : DBFAddNativeFieldType(def)
    \/ IsOpen /\ \E iField \in Fields : DBFDeleteField(iField)
    \/ IsOpen /\ \E panMap \in PanMaps(H.nFields) : DBFReorderFields(panMap, 0)
    \/ IsOpen /\ \E iField \in Fields, def \in FieldDefs : DBFAlterFieldDefn(iField, def)

Spec == Init /\ [][Next]_vars

(***************************************************************************)
(* Tables at the size limits: a file with as many fields of the largest    *)
(* width as a record can hold, and add and alter calls with wide fields.   *)
(***************************************************************************)
\* the most fields of width 255 that fit in a record of at most 65535 bytes
WideFields == (MAX_HEADER_LENGTH - 1) \div XBASE_FLD_MAX_WIDTH

\* "W": C(254), and C(300), which the code clamps to 255
DefW254 == FieldDef(<<87>>, chC, XBASE_FLD_MAX_WIDTH - 1, 0)
DefW300 == FieldDef(<<87>>, chC, XBASE_FLD_MAX_WIDTH + 45, 0)
DefW255 == FieldDef(<<87>>, chC, XBASE_FLD_MAX_WIDTH, 0)

WideDefs == {DefW254, DefW300}

\* WideFields fields of C(255) and one live record, every field "xx...x"
ImageWide ==
    DbfImage([i \in 1..WideFields |-> DefW255],
             1 + WideFields * XBASE_FLD_MAX_WIDTH,
             << <<chSpace>> \o Fill(WideFields * XBASE_FLD_MAX_WIDTH, 120) >>)

InitLimits ==
    /\ psDBF = NULL
    /\ disk = Stream(Pages(ImageWide))
    /\ last = Call("none", -1, -1, 0, <<>>)
    /\ written = NothingWritten
    /\ values = NoValues
    /\ nCalls = 0
    /\ cpg = NULL

NextLimits ==
    \/ DBFOpen
    \/ DBFClose
    \/ IsOpen /\ \E def \in WideDefs : DBFAddNativeFieldType(def)
    \/ IsOpen /\ \E iField \in {0, H.nFields - 1}, def \in WideDefs :
            DBFAlterFieldDefn(iField, def)

SpecLimits == InitLimits /\ [][NextLimits]_vars

(***************************************************************************)
(* Altering one field: files with a field of each type that holds, record  *)
(* by record, blank, NULL, right-aligned, left-aligned and full values,    *)
(* followed by a C(1) field; alter calls that shrink, widen and retype the *)
(* first field.                                                            *)
(***************************************************************************)
AlterTypes == {chN, chF, chD, chL, chC}

\* "  ", " 7", "12", "7 ", "**", "00", "? ", "T ", "*a", " 0"
AlterValues ==
    << <<chSpace, chSpace>>, <<chSpace, 55>>, <<49, 50>>, <<55, chSpace>>,
       <<chStar, chStar>>, <<chZero, chZero>>, <<chQuestion, chSpace>>,
       <<chT, chSpace>>, <<chStar, 97>>, <<chSpace, chZero>> >>

\* a file with the fields A of type chType and width 2, and C1; record i
\* holds value i in A and "z" in C1, and the last record is deleted
AlterImage(chType) ==
    DbfImage(<<FieldDef(<<65>>, chType, Len(AlterValues[1]), 0), DefC>>,
             1 + Len(AlterValues[1]) + DefC.width,
             [i \in 1..Len(AlterValues) |->
                <<IF i = Len(AlterValues) THEN chStar ELSE chSpace>>
                \o AlterValues[i] \o <<122>>])

\* the definitions an alter call passes: each type, narrower and wider
AlterDefs ==
    {FieldDef(<<65>>, t, w, 0) : t \in {chN, chD, chL, chC},
                                w \in {Len(AlterValues[1]) - 1, Len(AlterValues[1]) + 1}}

InitAlter ==
    /\ psDBF = NULL
    /\ disk \in {Stream(Pages(AlterImage(t))) : t \in AlterTypes}
    /\ last = Call("none", -1, -1, 0, <<>>)
    /\ written = NothingWritten
    /\ values = NoValues
    /\ nCalls = 0
    /\ cpg = NULL

NextAlter ==
    \/ DBFOpen
    \/ DBFClose
    \/ IsOpen /\ \E def \in AlterDefs : DBFAlterFieldDefn(0, def)

SpecAlter == InitAlter /\ [][NextAlter]_vars

(***************************************************************************)
(* NULL values of every type: files with a field of one of the types N, F, *)
(* D, L, C and X (a type the code has no case for) and a C(1) field, and   *)
(* one record; typed and NULL writes to both records and both fields.      *)
(***************************************************************************)
chX == 88

NullTypes == {chN, chF, chD, chL, chC, chX}

\* the fields A of type chType and width 2, and C1; one record "12" and "z"
NullImage(chType) ==
    DbfImage(<<FieldDef(<<65>>, chType, 2, 0), DefC>>, 4,
             << <<chSpace, 49, 50, 122>> >>)

\* the values written: NULL; the numbers 7 and 0; 'T'; the strings "x", "*"
\* and the empty string
ProbeValuesFor(chType) ==
    {[kind |-> "null"]} \cup
    (IF chType = chN \/ chType = chF \/ chType = chD
     THEN {[kind |-> "num", v |-> 7], [kind |-> "num", v |-> 0]}
     ELSE IF chType = chL THEN {[kind |-> "chr", v |-> chT]}
     ELSE {[kind |-> "str", v |-> <<120>>], [kind |-> "str", v |-> <<chStar>>],
           [kind |-> "str", v |-> <<>>]})

InitNull ==
    /\ psDBF = NULL
    /\ disk \in {Stream(Pages(NullImage(t))) : t \in NullTypes}
    /\ last = Call("none", -1, -1, 0, <<>>)
    /\ written = NothingWritten
    /\ values = NoValues
    /\ nCalls = 0
    /\ cpg = NULL

NextNull ==
    \/ DBFOpen
    \/ DBFClose
    \/ IsOpen /\ \E hEntity \in Writable, iField \in Fields :
        \E pValue \in ProbeValuesFor(H.pachFieldType[iField + 1]) :
            DBFWriteAttribute(hEntity, iField, pValue)

SpecNull == InitNull /\ [][NextNull]_vars

(***************************************************************************)
(* Schemas: a created table, fields of every type added to it with short   *)
(* and long names, the smallest and the largest width, and decimals; then  *)
(* close and open.                                                         *)
(***************************************************************************)
\* "ABCDEFGHIJKL": two bytes longer than a descriptor holds
LongName == [i \in 1..(XBASE_FLDNAME_LEN_WRITE + 2) |-> 64 + i]

SchemaDefs ==
    {FieldDef(<<78>>, chN, 5, 2),
     FieldDef(<<70>>, chF, XBASE_FLD_MAX_WIDTH, XBASE_FLD_MAX_WIDTH),
     FieldDef(<<68>>, chD, 8, 0),
     FieldDef(<<76>>, chL, 1, 0),
     FieldDef(<<67>>, chC, XBASE_FLD_MAX_WIDTH, 0),
     FieldDef(LongName, chX, 3, 0),
     FieldDef(<<>>, chN, 1, 0),
     FieldDef(<<67, 50>>, chC, 4, 2),
     FieldDef(<<68, 50>>, chD, 8, 1),
     FieldDef(<<HEADER_RECORD_TERMINATOR, 65>>, chC, 2, 0)}

InitSchema ==
    /\ psDBF = NULL
    /\ disk = Stream(<<>>)
    /\ last = Call("none", -1, -1, 0, <<>>)
    /\ written = NothingWritten
    /\ values = NoValues
    /\ nCalls = 0
    /\ cpg = NULL

NextSchema ==
    \/ DBFCreate
    \/ DBFOpen
    \/ DBFClose
    \/ IsOpen /\ \E def \in SchemaDefs : DBFAddNativeFieldType(def)

SpecSchema == InitSchema /\ [][NextSchema]_vars

(***************************************************************************)
(* Tables with and without the end-of-file character: an empty table and   *)
(* one with two records, DBFSetWriteEndOfFileChar, appends and rewrites,   *)
(* reads and schema changes, in runs of up to EofCalls calls.              *)
(***************************************************************************)
EofCalls == 6

\* a table of one C(1) field without records
ImageEmpty == DbfImage(<<DefC>>, 2, <<>>)

InitEof ==
    /\ psDBF = NULL
    /\ disk \in {Stream(Pages(ImageEmpty)), Stream(Pages(ImageNC))}
    /\ last = Call("none", -1, -1, 0, <<>>)
    /\ written = NothingWritten
    /\ values = NoValues
    /\ nCalls = MaxCalls - EofCalls
    /\ cpg = NULL

NextEof ==
    \/ DBFOpen
    \/ DBFClose
    \/ IsOpen /\ \E b \in BOOLEAN : DBFSetWriteEndOfFileChar(b)
    \/ IsOpen /\ psDBF[1].nFields > 0 /\ \E hEntity \in Writable :
            DBFWriteAttribute(hEntity, H.nFields - 1, [kind |-> "str", v |-> <<120>>])
    \/ IsOpen /\ \E hEntity \in Records : DBFReadTuple(hEntity)
    \/ IsOpen /\ H.nFields < MaxFields /\ DBFAddNativeFieldType(DefC)
    \/ IsOpen /\ H.nFields > 1 /\ DBFDeleteField(0)
    \/ IsOpen /\ \E iField \in Fields : DBFAlterFieldDefn(iField, DefC)
    \/ DBFCreate

SpecEof == InitEof /\ [][NextEof]_vars

(***************************************************************************)
(* Calls with indices in and out of range: record indices from -1 to one   *)
(* past the append position, field indices from -1 to nFields, on a table  *)
(* of two fields and on one without fields, in runs of up to ErrCalls      *)
(* calls.                                                                  *)
(***************************************************************************)
ErrCalls == 3

\* two records "Tx" and "?y" of an L(1) and a C(1) field
ImageLC == DbfImage(<<DefL, DefC>>, 3,
                    << <<chSpace, chT, 120>>, <<chSpace, chQuestion, 121>> >>)

\* the values of the typed entry points, and for a logical field "X" too,
\* a byte that is no logical value
ErrValuesFor(chType) ==
    ValuesFor(chType) \cup (IF chType = chL THEN {[kind |-> "chr", v |-> chX]} ELSE {})

\* one record of no field
ImageNoFields == DbfImage(<<>>, 1, << <<chSpace>> >>)

\* what a write through a field index outside the arrays may do to the
\* record buffer, and what it may return
NoHit == [off |-> 0, hit |-> <<>>, ret |-> TRUE]
Outcomes == {NoHit, [off |-> 1, hit |-> <<chQuestion>>, ret |-> FALSE]}

Dates == {[year |-> 2020, month |-> 1, day |-> 2],
          [year |-> 10000, month |-> 1, day |-> 2]}

\* an append only while the table is small
ErrRecords ==
    {i \in -1..(psDBF[1].nRecords + 1) :
        i # psDBF[1].nRecords \/ psDBF[1].nRecords <= MaxRecords}
ErrFields == -1..psDBF[1].nFields

InitErr ==
    /\ psDBF = NULL
    /\ disk \in {Stream(Pages(ImageLC)), Stream(Pages(ImageNoFields))}
    /\ last = Call("none", -1, -1, 0, <<>>)
    /\ written = NothingWritten
    /\ values = NoValues
    /\ nCalls = MaxCalls - ErrCalls
    /\ cpg = NULL

NextErr ==
    \/ DBFOpen
    \/ DBFClose
    \/ IsOpen /\ \E hEntity \in ErrRecords : DBFReadTuple(hEntity)
    \/ IsOpen /\ \E iRecord \in ErrRecords, iField \in ErrFields :
            DBFReadStringAttribute(iRecord, iField)
    \/ IsOpen /\ \E hEntity \in ErrRecords, iField \in Fields :
        \E pValue \in ErrValuesFor(psDBF[1].pachFieldType[iField + 1]) :
            DBFWriteAttribute(hEntity, iField, pValue)
    \/ IsOpen /\ \E hEntity \in ErrRecords, iField \in ErrFields \ Fields :
        \E oob \in Outcomes, pValue \in {[kind |-> "null"], [kind |-> "str", v |-> <<120>>]} :
            DBFWriteAttributeOutOfRange(hEntity, iField, pValue, oob)
    \/ IsOpen /\ \E iRecord \in ErrRecords, iField \in ErrFields :
        \E lValue \in Dates, oob \in (IF iField >= psDBF[1].nFields THEN Outcomes ELSE {NoHit}) :
            DBFWriteDateAttribute(iRecord, iField, lValue, oob)
    \/ IsOpen /\ \E iShape \in ErrRecords, b \in BOOLEAN : DBFMarkRecordDeleted(iShape, b)

SpecErr == InitErr /\ [][NextErr]_vars

(***************************************************************************)
(* Schema calls that validation rejects: add and alter with width 0,       *)
(* delete and alter with field indices from -1 to nFields, among valid     *)
(* calls, on a table whose cached record may be dirty, in runs of up to    *)
(* RejCalls calls.                                                         *)
(***************************************************************************)
RejCalls == 4

\* "C" with width 0
DefC0 == FieldDef(<<67>>, chC, 0, 0)

InitReject ==
    /\ psDBF = NULL
    /\ disk = Stream(Pages(ImageLC))
    /\ last = Call("none", -1, -1, 0, <<>>)
    /\ written = NothingWritten
    /\ values = NoValues
    /\ nCalls = MaxCalls - RejCalls
    /\ cpg = NULL

NextReject ==
    \/ DBFOpen
    \/ DBFClose
    \/ IsOpen /\ psDBF[1].nFields > 0 /\ \E hEntity \in Writable :
        \E pValue \in {v \in ValuesFor(psDBF[1].pachFieldType[psDBF[1].nFields]) :
                            v.kind # "null"} :
            DBFWriteAttribute(hEntity, psDBF[1].nFields - 1, pValue)
    \/ IsOpen /\ \E def \in {DefC, DefC0} :
            /\ def = DefC => psDBF[1].nFields < MaxFields
            /\ DBFAddNativeFieldType(def)
    \/ IsOpen /\ \E iField \in ErrFields : DBFDeleteField(iField)
    \/ IsOpen /\ \E iField \in ErrFields, def \in {DefC, DefC0} :
            DBFAlterFieldDefn(iField, def)

SpecReject == InitReject /\ [][NextReject]_vars

(***************************************************************************)
(* I/O failures: a file whose last record is cut short, so that reads of   *)
(* it come back short, and a device that at some moment stops taking       *)
(* writes; record and schema calls in runs of up to FailCalls calls.       *)
(***************************************************************************)
FailCalls == 4

\* the file of ImageLC without its end-of-file character and without the
\* last byte of its second record
ImageCut == Bytes(ImageLC, 0, Len(ImageLC) - 2)

\* from now on FWrite on the open stream returns 0
DeviceFails ==
    /\ IsOpen /\ ~disk.wfail
    /\ disk' = [disk EXCEPT !.wfail = TRUE]
    /\ UNCHANGED <<psDBF, last, written, values, nCalls, cpg>>

InitFail ==
    /\ psDBF = NULL
    /\ disk \in {Stream(Pages(ImageLC)), Stream(Pages(ImageCut))}
    /\ last = Call("none", -1, -1, 0, <<>>)
    /\ written = NothingWritten
    /\ values = NoValues
    /\ nCalls = MaxCalls - FailCalls
    /\ cpg = NULL

NextFail ==
    \/ DBFOpen
    \/ DBFClose
    \/ DeviceFails
    \/ IsOpen /\ \E hEntity \in Records : DBFReadTuple(hEntity)
    \/ IsOpen /\ psDBF[1].nFields > 0 /\ \E hEntity \in Writable :
        \E pValue \in {v \in ValuesFor(psDBF[1].pachFieldType[psDBF[1].nFields]) :
                            v.kind # "null"} :
            DBFWriteAttribute(hEntity, psDBF[1].nFields - 1, pValue)
    \/ IsOpen /\ psDBF[1].nFields < MaxFields /\ DBFAddNativeFieldType(DefC)
    \/ IsOpen /\ \E iField \in Fields : DBFDeleteField(iField)
    \/ IsOpen /\ \E panMap \in PanMaps(psDBF[1].nFields) : DBFReorderFields(panMap, 0)
    \/ IsOpen /\ \E iField \in Fields, def \in {DefC, DefN} :
            DBFAlterFieldDefn(iField, def)

SpecFail == InitFail /\ [][NextFail]_vars

(***************************************************************************)
(* Opening and creating: files DBFOpenLL accepts and files it rejects,     *)
(* with and without a sidecar file, opened with several access strings and *)
(* found or not by the FOpen hook; tables created with several code page   *)
(* strings, filled, closed and opened again, in runs of up to OpenCalls    *)
(* calls.                                                                  *)
(***************************************************************************)
OpenCalls == 4

\* the file ends inside the 32 bytes of the file header
ImageShortHeader == Bytes(ImageLC, 0, 20)
\* record length 0 in bytes 10-11
ImageNoRecordLength == MemCpy(ImageLC, 10, <<0, 0>>)
\* header length 31 in bytes 8-9
ImageHeaderLength31 == MemCpy(ImageLC, 8, <<31, 0>>)
\* header length 32: no descriptor and no terminator
ImageHeaderLength32 == MemCpy(ImageLC, 8, <<32, 0>>)
\* the file ends inside the descriptors
ImageDescriptorsCut == Bytes(ImageLC, 0, 50)
\* fields L(1) and C(1) in records of 2 bytes
ImageFieldsTooWide == DbfImage(<<DefL, DefC>>, 2, << <<chSpace, chT>> >>)

OpenFiles == {ImageLC, ImageShortHeader, ImageNoRecordLength, ImageHeaderLength31,
              ImageHeaderLength32, ImageDescriptorsCut, ImageFieldsTooWide}

\* "UTF-8"
UTF8 == <<85, 84, 70, 45, 56>>

\* sidecar files found on disk: none, "UTF-8", and an empty first line
Sidecars == {NULL, <<UTF8>>, <<<<chLF>>>>}

\* code pages given at create: none, "LDID/87", "LDID/0", "LDID/255",
\* "LDID/256", "UTF-8" and ""
CodePages == {NULL, <<LDID \o <<56, 55>>>>, <<LDID \o <<48>>>>, <<LDID \o <<50, 53, 53>>>>,
              <<LDID \o <<50, 53, 54>>>>, <<UTF8>>, <<<<>>>>}

InitOpen ==
    /\ psDBF = NULL
    /\ disk \in {Stream(Pages(d)) : d \in OpenFiles}
    /\ last = Call("none", -1, -1, 0, <<>>)
    /\ written = NothingWritten
    /\ values = NoValues
    /\ nCalls = MaxCalls - OpenCalls
    /\ cpg \in Sidecars

NextOpen ==
    \/ \E pszAccess \in {"rb+", "r", "w"}, bFound \in BOOLEAN : DBFOpenLL(pszAccess, bFound)
    \/ \E pszCodePage \in CodePages : DBFCreateEx(pszCodePage)
    \/ DBFClose
    \/ IsOpen /\ psDBF[1].nFields = 0 /\ DBFAddNativeFieldType(DefC)
    \/ IsOpen /\ psDBF[1].nFields > 0 /\ psDBF[1].nRecords = 0
       /\ DBFWriteAttribute(0, psDBF[1].nFields - 1, [kind |-> "str", v |-> <<120>>])

SpecOpen == InitOpen /\ [][NextOpen]_vars

(***************************************************************************)
(* Header lengths: a created table, and files whose header states room for *)
(* two descriptors: with both descriptors and the terminator, with the     *)
(* second descriptor starting with 0x0D, and without room for the          *)
(* terminator; opened, fields added and deleted, records written and read, *)
(* closed and opened again, in runs of up to HdrCalls calls.               *)
(***************************************************************************)
HdrCalls == 5

\* the descriptor list ends early: the second descriptor starts with 0x0D
ImageEarlyEnd ==
    MemCpy(ImageLC, XBASE_FILEHDR_SZ + XBASE_FLDHDR_SZ, <<HEADER_RECORD_TERMINATOR>>)

\* header length 96: two descriptors and no terminator before the records
ImageNoTerminator ==
    MemCpy(Bytes(ImageLC, 0, XBASE_FILEHDR_SZ + 2 * XBASE_FLDHDR_SZ), 8, <<96, 0>>)
        \o Bytes(ImageLC, XBASE_FILEHDR_SZ + 2 * XBASE_FLDHDR_SZ + 1,
                 Len(ImageLC) - (XBASE_FILEHDR_SZ + 2 * XBASE_FLDHDR_SZ + 1))

InitHeader ==
    /\ psDBF = NULL
    /\ disk \in {Stream(Pages(d)) : d \in {ImageLC, ImageEarlyEnd, ImageNoTerminator}}
    /\ last = Call("none", -1, -1, 0, <<>>)
    /\ written = NothingWritten
    /\ values = NoValues
    /\ nCalls = MaxCalls - HdrCalls
    /\ cpg = NULL

NextHeader ==
    \/ DBFCreate
    \/ DBFOpen
    \/ DBFClose
    \/ IsOpen /\ psDBF[1].nFields < MaxFields /\ DBFAddNativeFieldType(DefC)
    \/ IsOpen /\ \E iField \in Fields : DBFDeleteField(iField)
    \/ IsOpen /\ psDBF[1].nFields > 0 /\ \E hEntity \in Writable :
            \E pValue \in {v \in ValuesFor(psDBF[1].pachFieldType[psDBF[1].nFields]) :
                                v.kind # "null"} :
                DBFWriteAttribute(hEntity, psDBF[1].nFields - 1, pValue)
    \/ IsOpen /\ \E hEntity \in Records : DBFReadTuple(hEntity)

SpecHeader == InitHeader /\ [][NextHeader]_vars

(***************************************************************************)
(* Rewrites in place: a table of two records of 19 bytes (fields C(17) and *)
(* C(1)), so that the records take more room than one descriptor and the   *)
(* old and the new places of the records overlap; fields are added,        *)
(* deleted, widened and narrowed, with and without a dirty record, in runs *)
(* of up to RewCalls calls.                                                *)
(***************************************************************************)
RewCalls == 5

\* "W1": C(17)
DefC17 == FieldDef(<<87, 49>>, chC, 17, 0)

ImageWide17 ==
    DbfImage(<<DefC17, DefC>>, 19,
             << <<chSpace>> \o [i \in 1..17 |-> 96 + i] \o <<120>>,
                <<chStar>> \o [i \in 1..17 |-> 64 + i] \o <<121>> >>)

InitRewrite ==
    /\ psDBF = NULL
    /\ disk = Stream(Pages(ImageWide17))
    /\ last = Call("none", -1, -1, 0, <<>>)
    /\ written = NothingWritten
    /\ values = NoValues
    /\ nCalls = MaxCalls - RewCalls
    /\ cpg = NULL

NextRewrite ==
    \/ DBFOpen
    \/ DBFClose
    \/ IsOpen /\ psDBF[1].nFields < MaxFields /\ DBFAddNativeFieldType(DefC)
    \/ IsOpen /\ \E iField \in Fields : DBFDeleteField(iField)
    \/ IsOpen /\ \E iField \in Fields : \E def \in {DefC, DefC17} :
            DBFAlterFieldDefn(iField, def)
    \/ IsOpen /\ psDBF[1].nFields > 0 /\ \E hEntity \in Writable :
            DBFWriteAttribute(hEntity, psDBF[1].nFields - 1, [kind |-> "str", v |-> <<120>>])
    \/ IsOpen /\ \E hEntity \in Records : DBFReadTuple(hEntity)

SpecRewrite == InitRewrite /\ [][NextRewrite]_vars

(***************************************************************************)
(* The header refresh and the update date: a created table and a table of  *)
(* two records; the date is set, the header refreshed, records written and *)
(* read, a field added, the table closed and opened again, in runs of up   *)
(* to DateCalls calls.                                                     *)
(***************************************************************************)
DateCalls == 5

\* 2024-03-07 and 1999-12-31, as DBFSetLastModifiedDate takes them
UpdateDates == {<<124, 3, 7>>, <<99, 12, 31>>}

InitDate ==
    /\ psDBF = NULL
    /\ disk = Stream(Pages(ImageLC))
    /\ last = Call("none", -1, -1, 0, <<>>)
    /\ written = NothingWritten
    /\ values = NoValues
    /\ nCalls = MaxCalls - DateCalls
    /\ cpg = NULL

NextDate ==
    \/ DBFCreate
    \/ DBFOpen
    \/ DBFClose
    \/ IsOpen /\ \E d \in UpdateDates : DBFSetLastModifiedDate(d[1], d[2], d[3])
    \/ DBFUpdateHeaderCall
    \/ IsOpen /\ psDBF[1].nFields > 0 /\ \E hEntity \in Writable :
            \E pValue \in {v \in ValuesFor(psDBF[1].pachFieldType[psDBF[1].nFields]) :
                                v.kind # "null"} :
                DBFWriteAttribute(hEntity, psDBF[1].nFields - 1, pValue)
    \/ IsOpen /\ \E hEntity \in Records : DBFReadTuple(hEntity)
    \/ IsOpen /\ psDBF[1].nFields < MaxFields /\ DBFAddNativeFieldType(DefC)
    \/ IsOpen /\ \E iField \in Fields : DBFDeleteField(iField)

SpecDate == InitDate /\ [][NextDate]_vars

(***************************************************************************)
(* The typed field codecs: string, number and date writes of values that   *)
(* fit, fill and exceed their fields, and the reads of what was stored,    *)
(* on a table of a C(5), an N(3,0), an F(4,1), a D(8) and a D(2) field     *)
(* and on a table of one N field of the largest width, in runs of up to    *)
(* CodecCalls calls.                                                       *)
(***************************************************************************)
CodecCalls == 3

DefS5 == FieldDef(<<83, 53>>, chC, 5, 0)
DefN3 == FieldDef(<<78, 51>>, chN, 3, 0)
DefF4 == FieldDef(<<70, 52>>, chF, 4, 1)
DefD8 == FieldDef(<<68, 56>>, chD, 8, 0)
DefNMax == FieldDef(<<78, 77>>, chN, XBASE_FLD_MAX_WIDTH, 0)

\* one record, every field byte "z"
ImageCodec == DbfImage(<<DefS5, DefN3, DefF4, DefD8, DefD>>, 23,
                       << <<chSpace>> \o Fill(22, 122) >>)

\* one record, every field byte "5"
ImageNMax == DbfImage(<<DefNMax>>, XBASE_FLD_MAX_WIDTH + 1,
                      << <<chSpace>> \o Fill(XBASE_FLD_MAX_WIDTH, 53) >>)

\* "", "hi", "abcde" and "abcdef" for a string field; numbers of one to
\* four characters for a number field
CodecValuesFor(chType) ==
    IF chType = chC
    THEN {[kind |-> "str", v |-> s] :
            s \in {<<>>, <<104, 105>>, <<97, 98, 99, 100, 101>>,
                   <<97, 98, 99, 100, 101, 102>>}}
    ELSE IF chType = chN \/ chType = chF
    THEN {[kind |-> "num", v |-> n] : n \in {7, -7, 12, -123, 1234}}
    ELSE {v \in ValuesFor(chType) : v.kind # "null"}

CodecDates ==
    {[year |-> 2024, month |-> 3, day |-> 7],
     [year |-> 0, month |-> 0, day |-> 0],
     [year |-> 9999, month |-> 99, day |-> 99],
     [year |-> 10000, month |-> 1, day |-> 2],
     [year |-> -1, month |-> 1, day |-> 2],
     [year |-> 2024, month |-> 100, day |-> 1],
     [year |-> 2024, month |-> 1, day |-> -1]}

DateFields == {k \in Fields : psDBF[1].pachFieldType[k + 1] = chD}

InitCodec ==
    /\ psDBF = NULL
    /\ disk \in {Stream(Pages(ImageCodec)), Stream(Pages(ImageNMax))}
    /\ last = Call("none", -1, -1, 0, <<>>)
    /\ written = NothingWritten
    /\ values = NoValues
    /\ nCalls = MaxCalls - CodecCalls
    /\ cpg = NULL

NextCodec ==
    \/ DBFOpen
    \/ DBFClose
    \/ IsOpen /\ \E hEntity \in Writable, iField \in Fields :
        \E pValue \in CodecValuesFor(psDBF[1].pachFieldType[iField + 1]) :
            DBFWriteAttribute(hEntity, iField, pValue)
    \/ IsOpen /\ \E iRecord \in Writable, iField \in DateFields, lValue \in CodecDates :
            DBFWriteDateAttribute(iRecord, iField, lValue, NoHit)
    \/ IsOpen /\ \E iRecord \in Records, iField \in Fields :
            DBFReadStringAttribute(iRecord, iField)
    \/ IsOpen /\ \E iRecord \in Records, iField \in Fields :
            DBFReadDateAttribute(iRecord, iField)
    \/ IsOpen /\ \E iRecord \in Records, iField \in Fields :
            DBFIsAttributeNULL(iRecord, iField)

SpecCodec == InitCodec /\ [][NextCodec]_vars

(***************************************************************************)
(* Reordering: every permutation of the fields of a table of three fields  *)
(* of different widths, of a table with a spare byte in its records and of *)
(* created tables, with clean and dirty cached records and two values of   *)
(* fresh memory, in runs of up to ReorderCalls calls.                      *)
(***************************************************************************)
ReorderCalls == 4

\* two records of an L(1), an N(2) and a D(8) field
ImageThree == DbfImage(<<DefL, DefN, DefD8>>, 12,
                       << <<chSpace, chT, 49, 50, 50, 48, 50, 52, 48, 51, 48, 55>>,
                          <<chStar, chF, 51, 52, 49, 57, 57, 57, 49, 50, 51, 49>> >>)

\* freshly allocated memory holds 0 or 0xAA
Junk == {0, 170}

InitReorder ==
    /\ psDBF = NULL
    /\ disk \in {Stream(Pages(ImageThree)), Stream(Pages(ImageSlack))}
    /\ last = Call("none", -1, -1, 0, <<>>)
    /\ written = NothingWritten
    /\ values = NoValues
    /\ nCalls = MaxCalls - ReorderCalls
    /\ cpg = NULL

NextReorder ==
    \/ DBFCreate
    \/ DBFOpen
    \/ DBFClose
    \/ IsOpen /\ \E panMap \in PanMaps(psDBF[1].nFields), junk \in Junk :
            DBFReorderFields(panMap, junk)
    \/ IsOpen /\ psDBF[1].nFields < MaxFields /\ \E def \in {DefC, DefN} :
            DBFAddNativeFieldType(def)
    \/ IsOpen /\ psDBF[1].nFields > 0 /\ \E hEntity \in Writable :
        \E pValue \in {v \in ValuesFor(psDBF[1].pachFieldType[psDBF[1].nFields]) :
                            v.kind # "null"} :
            DBFWriteAttribute(hEntity, psDBF[1].nFields - 1, pValue)
    \/ IsOpen /\ \E hEntity \in Records : DBFReadTuple(hEntity)

SpecReorder == InitReorder /\ [][NextReorder]_vars

(***************************************************************************)
(* What the claims speak of.                                               *)
(***************************************************************************)
RecordOps == {"DBFWriteAttribute", "DBFWriteTuple", "DBFMarkRecordDeleted",
              "DBFReadTuple"}

SchemaOps == {"DBFAddNativeFieldType", "DBFDeleteField", "DBFReorderFields",
              "DBFAlterFieldDefn"}

\* the bytes of record i as they are in the file (fewer than a record where
\* the file ends early)
DiskRecord(f, h, i) == FReadBytes(FSeek(f, RecordOffset(h, i)), h.nRecordLength)

\* the bytes of record i as a read through the handle returns them (<<>> if
\* the read fails)
View(h, f, i) == ReadTuple(Env(h, f, TRUE), i).out

\* the bytes of field k in the record bytes rec
FieldOf(rec, h, k) == Bytes(rec, h.panFieldOffset[k + 1], h.panFieldSize[k + 1])

\* the last call was a schema mutation that succeeded
Mutated(call) ==
    \/ call.op = "DBFAddNativeFieldType" /\ call.ret >= 0
    \/ call.op \in {"DBFDeleteField", "DBFReorderFields", "DBFAlterFieldDefn"}
       /\ call.ret = 1

(***************************************************************************)
(* C1.  Read-your-writes: on one handle, a successful read of record i     *)
(* returns exactly the bytes most recently written to record i by a typed  *)
(* or NULL write, a tuple write or a mark-deleted, whether record i is     *)
(* still cached or was flushed when another record became current.         *)
(***************************************************************************)
C1_ReadYourWrites ==
    (last.op = "DBFReadTuple" /\ last.ret = 1 /\ written[last.rec] # <<>>)
        => last.out = written[last.rec]

\* a read of a written record that was not the cached one: it had been
\* flushed for another record, which was written too
C1_Witness ==
    /\ last.op = "DBFReadTuple" /\ last.ret = 1
    /\ written[last.rec] # <<>>
    /\ last.cur # last.rec /\ last.cur > -1
    /\ written[last.cur] # <<>>
    /\ written[last.cur] # written[last.rec]

(***************************************************************************)
(* C2.  Flush-before-read: when a record operation finds a dirty cached    *)
(* record c and makes another record current (a load of j # c, or an       *)
(* append), the bytes the buffer held are in the file afterwards at        *)
(* nHeaderLength + c * nRecordLength: the read or the blanking of the      *)
(* append never destroys unwritten bytes.                                  *)
(***************************************************************************)
C2_FlushBeforeRead ==
    [][(/\ IsOpen /\ IsOpen'
        /\ last'.op \in RecordOps
        /\ H.bCurrentRecordModified /\ H.nCurrentRecord > -1
        /\ H'.nCurrentRecord # H.nCurrentRecord)
       => DiskRecord(fp', H, H.nCurrentRecord) = CurrentRecordBytes(H)]_vars

\* an append found another record dirty, and the file now holds that
\* record's written bytes
C2_Witness ==
    /\ IsOpen /\ last.op \in {"DBFWriteAttribute", "DBFWriteTuple"}
    /\ last.dirty /\ last.cur # last.rec
    /\ last.rec = H.nRecords - 1 /\ H.nCurrentRecord = last.rec
    /\ written[last.cur] # <<>>
    /\ DiskRecord(fp, H, last.cur) = written[last.cur]
    /\ DiskRecord(fp, H, last.cur) # CurrentRecordBytes(H)

(***************************************************************************)
(* C3.  Header consistency: after DBFClose the record count in header      *)
(* bytes 4-7 of the file equals the handle's record count at close, and a  *)
(* fresh open of the file reads exactly that many records.                 *)
(***************************************************************************)
C3_HeaderConsistency ==
    [][(IsOpen /\ last'.op = "DBFClose")
       => LET reopened == OpenedHandle(fp'.data)
              n == H.nRecords
          IN  /\ Bytes(fp'.data, 4, 4) = <<n % 256, (n \div 256) % 256, 0, 0>>
              /\ reopened # NULL
              /\ reopened[1].nRecords = n
              /\ \A i \in 0..(n - 1) :
                    ReadTuple(Env(reopened[1], fp', TRUE), i).ret
              /\ ~ReadTuple(Env(reopened[1], fp', TRUE), n).ret]_vars

(***************************************************************************)
(* C4.  A pending write is not lost by a schema mutation: when a           *)
(* successful typed write to (r, f) is followed at once by a successful    *)
(* add, delete, reorder or alter, the cache is empty afterwards            *)
(* (nCurrentRecord = -1, not dirty) and a read of record r returns the     *)
(* written bytes of field f at its new index and offset.  The deleted      *)
(* field has no new index; an altered field f holds the written text,      *)
(* re-laid in its new width, when that text is not NULL and fits.          *)
(***************************************************************************)
\* the index field f has after the mutation (-1: none)
NewIndex(call, f) ==
    CASE call.op = "DBFDeleteField" ->
            IF f = call.fld THEN -1 ELSE IF f > call.fld THEN f - 1 ELSE f
      [] call.op = "DBFReorderFields" ->
            CHOOSE k \in 0..(Len(call.out) - 1) : call.out[k + 1] = f
      [] OTHER -> f

C4_PendingWriteSurvives ==
    [][(/\ IsOpen /\ IsOpen'
        /\ last.op = "DBFWriteAttribute" /\ last.ret = 1
        /\ H.bCurrentRecordModified /\ H.nCurrentRecord = last.rec
        /\ Mutated(last'))
       => LET r == last.rec
              f == last.fld
              k == NewIndex(last', f)
              old == FieldOf(CurrentRecordBytes(H), H, f)
              new == FieldOf(View(H', fp', r), H', k)
          IN  /\ H'.nCurrentRecord = -1
              /\ ~H'.bCurrentRecordModified
              /\ k >= 0 => View(H', fp', r) # <<>>
              /\ (k >= 0 /\ ~(last'.op = "DBFAlterFieldDefn" /\ last'.fld = f))
                    => new = old
              /\ (/\ last'.op = "DBFAlterFieldDefn" /\ last'.fld = f
                  /\ ~IsAttributeNULL(E, r, f).ret
                  /\ Len(Trim(old)) <= H'.panFieldSize[k + 1])
                    => Trim(new) = Trim(old)]_vars

\* a mutation that found the record of the last typed write still dirty
\* and moved the written field to another offset
C4_Witness ==
    /\ IsOpen /\ Mutated(last) /\ last.dirty
    /\ last.op \in {"DBFDeleteField", "DBFReorderFields", "DBFAlterFieldDefn"}
    /\ H.nCurrentRecord = -1 /\ H.nRecords = 2 /\ H.nFields >= 1
    /\ \E k \in 0..(H.nFields - 1) :
          FieldOf(View(H, fp, last.cur), H, k) \in {<<chSpace, 55>>, <<120>>}
          /\ FieldOf(View(H, fp, last.cur), H, k)
                # FieldOf(View(H, fp, 1 - last.cur), H, k)

(***************************************************************************)
(* C5.  Schema layout: a created handle, and a handle opened from a file   *)
(* whose header states the record length 1 + the sum of its field widths,  *)
(* has panFieldOffset[0] = 1, every later offset the sum of the offset and *)
(* the width before it, and nRecordLength = 1 + the sum of the widths; and *)
(* every operation on a handle that has this layout leaves it so.  (Every  *)
(* opened handle has the offsets; open also accepts a header that states   *)
(* a longer record.)                                                       *)
(***************************************************************************)
RECURSIVE SumTo(_, _)
SumTo(sizes, n) == IF n = 0 THEN 0 ELSE SumTo(sizes, n - 1) + sizes[n]

Cumulative(h) ==
    \A i \in 1..h.nFields : h.panFieldOffset[i] = 1 + SumTo(h.panFieldSize, i - 1)

Layout(h) ==
    Cumulative(h) /\ h.nRecordLength = 1 + SumTo(h.panFieldSize, h.nFields)

\* the record length the header of the file states
StatedRecordLength(data) == data[11] + 256 * data[12]

C7_AddFieldFrame ==
    [][(/\ IsOpen /\ IsOpen'
        /\ last'.op = "DBFAddNativeFieldType" /\ last'.ret >= 0
        /\ H.nRecords > 0)
       => /\ H'.nRecords = H.nRecords
          /\ H'.nFields = H.nFields + 1 /\ last'.ret = H.nFields
          /\ \A r \in 0..(H.nRecords - 1) :
                LET old == View(H, fp, r)
                    new == View(H', fp', r)
                IN  /\ old # <<>> /\ new # <<>>
                    /\ new[1] = old[1]
                    /\ \A k \in 0..(H.nFields - 1) :
                          FieldOf(new, H', k) = FieldOf(old, H, k)
                    /\ FieldOf(new, H', last'.ret)
                          = Fill(H'.panFieldSize[last'.ret + 1],
                                 DBFGetNullCharacter(H'.pachFieldType[last'.ret + 1]))
                    /\ IsAttributeNULL(E', r, last'.ret).ret]_vars

\* a field added to two records, one of them dirty: the new field is NULL
\* in both, the first field is not
C7_Witness ==
    /\ IsOpen /\ last.op = "DBFAddNativeFieldType" /\ last.ret >= 1
    /\ H.nRecords = 2 /\ last.dirty
    /\ IsAttributeNULL(E, 0, last.ret).ret /\ IsAttributeNULL(E, 1, last.ret).ret
    /\ ~IsAttributeNULL(E, 0, 0).ret

(***************************************************************************)
(* C8.  Delete field i: nRecordLength shrinks by the width of field i and  *)
(* nHeaderLength by 32, the record count and every deletion flag are       *)
(* unchanged, and every other field keeps its bytes in every record, at    *)
(* its old offset before i and at its old offset less the width after i.   *)
(***************************************************************************)
C8_DeleteFieldFrame ==
    [][(/\ IsOpen /\ IsOpen'
        /\ last'.op = "DBFDeleteField" /\ last'.ret = 1)
       => LET i == last'.fld
              w == H.panFieldSize[i + 1]
          IN  /\ H'.nRecordLength = H.nRecordLength - w
              /\ H'.nHeaderLength = H.nHeaderLength - XBASE_FLDHDR_SZ
              /\ H'.nRecords = H.nRecords
              /\ H'.nFields = H.nFields - 1
              /\ \A k \in 0..(H.nFields - 1) :
                    k # i =>
                        H'.panFieldOffset[NewIndex(last', k) + 1]
                            = H.panFieldOffset[k + 1] - (IF k > i THEN w ELSE 0)
              /\ \A r \in 0..(H.nRecords - 1) :
                    LET old == View(H, fp, r)
                        new == View(H', fp', r)
                    IN  /\ old # <<>> /\ new # <<>>
                        /\ new[1] = old[1]
                        /\ \A k \in 0..(H.nFields - 1) :
                              k # i => FieldOf(new, H', NewIndex(last', k))
                                          = FieldOf(old, H, k)]_vars

\* the first of two fields deleted from two records, one of them dirty
C8_Witness ==
    /\ IsOpen /\ last.op = "DBFDeleteField" /\ last.ret = 1 /\ last.fld = 0
    /\ H.nFields = 1 /\ H.nRecords = 2 /\ last.dirty
    /\ H.panFieldOffset[1] = 1
    /\ View(H, fp, 0) # View(H, fp, 1)

C10_AlterFieldFrame ==
    [][(/\ IsOpen /\ IsOpen'
        /\ last'.op = "DBFAlterFieldDefn" /\ last'.ret = 1)
       => LET i == last'.fld
              d == H'.panFieldSize[i + 1] - H.panFieldSize[i + 1]
          IN  /\ H'.nRecords = H.nRecords
              /\ H'.nFields = H.nFields
              /\ \A k \in 0..(H.nFields - 1) :
                    k # i =>
                        /\ H'.panFieldOffset[k + 1]
                              = H.panFieldOffset[k + 1] + (IF k > i THEN d ELSE 0)
                        /\ H'.panFieldSize[k + 1] = H.panFieldSize[k + 1]
              /\ \A r \in 0..(H.nRecords - 1) :
                    LET old == View(H, fp, r)
                        new == View(H', fp', r)
                    IN  /\ old # <<>> /\ new # <<>>
                        /\ new[1] = old[1]
                        /\ \A k \in 0..(H.nFields - 1) :
                              k # i => FieldOf(new, H', k) = FieldOf(old, H, k)]_vars

\* the first of two fields grew in a table of two records
C10_Witness ==
    /\ IsOpen /\ last.op = "DBFAlterFieldDefn" /\ last.ret = 1 /\ last.fld = 0
    /\ H.nFields = 2 /\ H.nRecords = 2
    /\ H.panFieldSize[1] > last.out[2]
    /\ View(H, fp, 0) # View(H, fp, 1)

C12_NullPreserved ==
    [][LET Rule(h, f, h2, f2, i) ==
                \A r \in 0..(h.nRecords - 1) :
                    IF IsAttributeNULL(Env(h, f, TRUE), r, i).ret
                    THEN /\ FieldOf(View(h2, f2, r), h2, i)
                              = Fill(h2.panFieldSize[i + 1],
                                     DBFGetNullCharacter(h2.pachFieldType[i + 1]))
                         /\ IsAttributeNULL(Env(h2, f2, TRUE), r, i).ret
                    ELSE ~IsAttributeNULL(Env(h2, f2, TRUE), r, i).ret
       IN  (/\ IsOpen /\ IsOpen'
            /\ last'.op = "DBFAlterFieldDefn" /\ last'.ret = 1)
               => Rule(H, fp, H', fp', last'.fld)]_vars

(***************************************************************************)
(* C13.  Null idempotence, for a field of each type N, F, D, L, C and      *)
(* other: after a successful NULL write to (r, f), DBFIsAttributeNULL(r,   *)
(* f) is true; after a successful write of a value that is not NULL to     *)
(* (r, f), following a NULL write or not, it is false.  The values that    *)
(* are not NULL are the numbers, but for the number 0 in a date field,     *)
(* which is the NULL date, the logical values, and the strings that are    *)
(* not empty.                                                              *)
(***************************************************************************)
\* pValue is a value other than NULL for a field of type chType
NonNullValue(chType, pValue) ==
    CASE pValue.kind = "null" -> FALSE
      [] pValue.kind = "num" -> ~(chType = chD /\ pValue.v = 0)
      [] pValue.kind = "str" -> pValue.v # <<>>
      [] OTHER -> TRUE

C13_NullIdempotence ==
    [][LET Rule(h2, f2, call) ==
                /\ call.arg.kind = "null"
                      => IsAttributeNULL(Env(h2, f2, TRUE), call.rec, call.fld).ret
                /\ NonNullValue(h2.pachFieldType[call.fld + 1], call.arg)
                      => ~IsAttributeNULL(Env(h2, f2, TRUE), call.rec, call.fld).ret
       IN  (IsOpen /\ IsOpen' /\ last'.op = "DBFWriteAttribute" /\ last'.ret = 1)
               => Rule(H', fp', last')]_vars

\* a value written to an F field right after a NULL write to the same
\* record and field: the field is not NULL
C13_Witness ==
    /\ IsOpen /\ last.op = "DBFWriteAttribute" /\ last.ret = 1
    /\ last.arg.kind = "num"
    /\ last.prev[1] = "DBFWriteAttribute"
    /\ last.prev[2] = last.rec /\ last.prev[3] = last.fld
    /\ last.prev[4].kind = "null"
    /\ H.pachFieldType[last.fld + 1] = chF
    /\ ~IsAttributeNULL(E, last.rec, last.fld).ret

(***************************************************************************)
(* C14.  A field whose stored bytes are all spaces is reported NULL by     *)
(* DBFIsAttributeNULL, whatever its type; so is every field of a record    *)
(* that was appended and not written yet.                                  *)
(***************************************************************************)
C14_BlankIsNull ==
    IsOpen =>
        \A r \in 0..(H.nRecords - 1), k \in 0..(H.nFields - 1) :
            AllAre(FieldOf(View(H, fp, r), H, k), chSpace)
                => IsAttributeNULL(E, r, k).ret

(***************************************************************************)
(* C15.  Deletion flag: after DBFMarkRecordDeleted(i, b) on a record i of  *)
(* the table, DBFIsRecordDeleted(i) is b (true after marking, false after  *)
(* marking back); the call changes byte 0 of record i and no other byte of *)
(* record i, and no byte of another record, as read through the handle;    *)
(* in the file, a record is either unchanged or was the dirty cached       *)
(* record and now holds the bytes the cache had.                           *)
(***************************************************************************)
C15_DeletionFlag ==
    [][LET Record(old, new, r, i, chFlag) ==
                /\ old # <<>> /\ new # <<>>
                /\ new = IF r = i THEN <<chFlag>> \o Tail(old) ELSE old
           Rule(h, f, h2, f2, i, b) ==
                /\ IsRecordDeleted(Env(h2, f2, TRUE), i).ret = b
                /\ h2.nRecords = h.nRecords /\ h2.nRecordLength = h.nRecordLength
                /\ \A r \in 0..(h.nRecords - 1) :
                      /\ Record(View(h, f, r), View(h2, f2, r), r, i,
                                IF b THEN chStar ELSE chSpace)
                      /\ \/ DiskRecord(f2, h2, r) = DiskRecord(f, h, r)
                         \/ /\ r = h.nCurrentRecord /\ h.bCurrentRecordModified
                            /\ DiskRecord(f2, h2, r) = CurrentRecordBytes(h)
       IN  (IsOpen /\ IsOpen' /\ last'.op = "DBFMarkRecordDeleted" /\ last'.ret = 1)
               => Rule(H, fp, H', fp', last'.rec, last'.arg)]_vars

\* a record marked deleted and then marked live again, in a table of two
\* records of which the other one is deleted
C15_Witness ==
    /\ IsOpen /\ last.op = "DBFMarkRecordDeleted" /\ last.ret = 1
    /\ last.arg = FALSE
    /\ last.prev[1] = "DBFMarkRecordDeleted"
    /\ last.prev[2] = last.rec /\ last.prev[4] = TRUE
    /\ H.nRecords = 2
    /\ ~IsRecordDeleted(E, last.rec).ret
    /\ IsRecordDeleted(E, 1 - last.rec).ret

(***************************************************************************)
(* C16.  The record count changes only by appending: a write (typed, NULL  *)
(* or tuple) to index nRecords adds exactly one record, which is blank     *)
(* with a blank deletion flag but for what the write itself put in it; a   *)
(* write to an index below nRecords, and every other call on the handle    *)
(* (read, mark-deleted, add, delete, reorder, alter field), leaves the     *)
(* count as it is; so the count never decreases.                           *)
(***************************************************************************)
C16_CountByAppend ==
    [][LET Blank(new, h2, call) ==
                call.op = "DBFWriteAttribute" =>
                    /\ new # <<>> /\ new[1] = chSpace
                    /\ \A b \in 1..(h2.nRecordLength - 1) :
                          \/ new[b + 1] = chSpace
                          \/ /\ b >= h2.panFieldOffset[call.fld + 1]
                             /\ b < h2.panFieldOffset[call.fld + 1]
                                    + h2.panFieldSize[call.fld + 1]
           Rule(h, h2, f2, call) ==
                IF call.op \in {"DBFWriteAttribute", "DBFWriteTuple"}
                   /\ call.rec = h.nRecords
                THEN /\ h2.nRecords = h.nRecords + 1
                     /\ Blank(View(h2, f2, call.rec), h2, call)
                ELSE h2.nRecords = h.nRecords
       IN  (IsOpen /\ IsOpen') => Rule(H, H', fp', last')]_vars

\* a typed write appended the second record: its other field is blank
C16_Witness ==
    /\ IsOpen /\ last.op = "DBFWriteAttribute" /\ last.rec = last.n
    /\ last.fld = 0 /\ last.arg.kind # "null"
    /\ H.nRecords = 2 /\ H.nFields = 2
    /\ AllAre(FieldOf(View(H, fp, 1), H, 1), chSpace)
    /\ ~AllAre(FieldOf(View(H, fp, 1), H, 0), chSpace)

(***************************************************************************)
(* C17.  Schema round-trip: every field added is in the handle with the    *)
(* type, width and decimals passed and the name cut to 10 bytes; and when  *)
(* no name starts with the byte 0x0D, close and a fresh open yield the     *)
(* same number of fields, with the same names, types, widths and offsets,  *)
(* the same decimals for N and F fields, and decimals 0 for every other    *)
(* type.                                                                   *)
(***************************************************************************)
\* the name in the descriptor of field k: the 11 bytes before the type
NameOf(h, k) == SubSeq(FInfo(h.pszHeader, k), 1, XBASE_FLDNAME_LEN_WRITE + 1)

\* pszFieldName as a descriptor holds it: cut to 10 bytes, NUL padded
CutName(pszFieldName) ==
    [i \in 1..(XBASE_FLDNAME_LEN_WRITE + 1) |->
        IF i <= Len(pszFieldName) /\ i <= XBASE_FLDNAME_LEN_WRITE
        THEN pszFieldName[i] ELSE 0]

\* field k of the handle h is the field def
IsField(h, k, def) ==
    /\ NameOf(h, k) = CutName(def.name)
    /\ h.pachFieldType[k + 1] = def.type
    /\ h.panFieldSize[k + 1] = def.width
    /\ h.panFieldDecimals[k + 1] = def.dec

\* field k of h as a definition, with the decimals dec
AsDef(h, k, dec) ==
    FieldDef(NameOf(h, k), h.pachFieldType[k + 1], h.panFieldSize[k + 1], dec)

C17_SchemaRoundTrip ==
    [][LET Same(h, h2) ==
                /\ h2.nFields = h.nFields
                /\ h2.nRecordLength = h.nRecordLength
                /\ h2.nHeaderLength = h.nHeaderLength
                /\ \A k \in 0..(h.nFields - 1) :
                      /\ IsField(h2, k,
                                 AsDef(h, k, IF h.pachFieldType[k + 1] \in {chN, chF}
                                             THEN h.panFieldDecimals[k + 1] ELSE 0))
                      /\ h2.panFieldOffset[k + 1] = h.panFieldOffset[k + 1]
           Reopened(h, psNew) ==
                (\A k \in 0..(h.nFields - 1) :
                        NameOf(h, k)[1] # HEADER_RECORD_TERMINATOR)
                    => psNew # NULL /\ Same(h, psNew[1])
           Added(h, h2, def, k) ==
                /\ k = h.nFields /\ h2.nFields = h.nFields + 1
                /\ IsField(h2, k, def)
                /\ h2.panFieldOffset[k + 1] = h.nRecordLength
                /\ \A j \in 0..(h.nFields - 1) :
                      /\ IsField(h2, j, AsDef(h, j, h.panFieldDecimals[j + 1]))
                      /\ h2.panFieldOffset[j + 1] = h.panFieldOffset[j + 1]
       IN  /\ (IsOpen /\ last'.op = "DBFClose")
               => Reopened(H, OpenedHandle(fp'.data))
           /\ (IsOpen /\ IsOpen' /\ last'.op = "DBFAddNativeFieldType"
                /\ last'.ret >= 0)
               => Added(H, H', last'.arg, last'.ret)]_vars

\* a closed file that opens with the two fields added: N(5,2) first, then
\* the field with the long name, cut to "ABCDEFGHIJ"
C17_Witness ==
    /\ ~IsOpen /\ last.op = "DBFClose"
    /\ last.prev[1] = "DBFAddNativeFieldType" /\ last.prev[4].name = LongName
    /\ OpenedHandle(fp.data) # NULL
    /\ OpenedHandle(fp.data)[1].nFields = 2
    /\ IsField(OpenedHandle(fp.data)[1], 0, FieldDef(<<78>>, chN, 5, 2))
    /\ IsField(OpenedHandle(fp.data)[1], 1,
               FieldDef(SubSeq(LongName, 1, XBASE_FLDNAME_LEN_WRITE), chX, 3, 0))

\* C17 as stated: close and a fresh open yield the fields of the handle,
\* decimals included, whatever the type
C17_AsStated ==
    [][LET Same(h, h2) ==
                /\ h2.nFields = h.nFields
                /\ \A k \in 0..(h.nFields - 1) :
                      /\ IsField(h2, k, AsDef(h, k, h.panFieldDecimals[k + 1]))
                      /\ h2.panFieldOffset[k + 1] = h.panFieldOffset[k + 1]
           Reopened(h, psNew) ==
                (\A k \in 0..(h.nFields - 1) :
                        NameOf(h, k)[1] # HEADER_RECORD_TERMINATOR)
                    => psNew # NULL /\ Same(h, psNew[1])
       IN  (IsOpen /\ last'.op = "DBFClose")
               => Reopened(H, OpenedHandle(fp'.data))]_vars

(***************************************************************************)
(* C18.  Record round-trip through the file: after appends and rewrites of *)
(* numbers and strings that fit their field, in a table with the layout of *)
(* a created one (C5), DBFClose and a fresh open give the record count of  *)
(* the handle, and a typed read of each (record, field) gives the last     *)
(* value written to it.                                                    *)
(***************************************************************************)
\* a typed read of (r, k) through the handle h gives the value pValue: the
\* integer read parses the field as a number, the string read trims it
ReadsAs(h, f, r, k, pValue) ==
    LET Got(v) ==
            /\ v.ret
            /\ CASE pValue.kind = "num" -> AtofEquals(CStr(FieldOf(View(h, f, r), h, k)),
                                                      pValue.v)
                  [] pValue.kind = "chr" -> v.out = <<pValue.v>>
                  [] pValue.kind = "str" -> v.out = pValue.v
                  [] OTHER -> TRUE
    IN  Got(ReadAttribute(Env(h, f, TRUE), r, k))

SameSchema(h, psNew) ==
    /\ psNew # NULL
    /\ psNew[1].nRecords = h.nRecords
    /\ psNew[1].nFields = h.nFields
    /\ psNew[1].nRecordLength = h.nRecordLength
    /\ psNew[1].nHeaderLength = h.nHeaderLength
    /\ \A k \in 1..h.nFields :
          /\ psNew[1].panFieldSize[k] = h.panFieldSize[k]
          /\ psNew[1].pachFieldType[k] = h.pachFieldType[k]

FileLength(h) ==
    h.nHeaderLength + h.nRecords * h.nRecordLength
        + (IF h.bWriteEndOfFileChar THEN 1 ELSE 0)

C20_FileLength ==
    [][(IsOpen /\ last'.op = "DBFClose") => Len(fp'.data) = FileLength(H)]_vars

(***************************************************************************)
(* C21.  Seek elision is safe: no call writes to the stream directly after *)
(* a read (DBFFlushRecord writes without a seek only when the stream is at *)
(* the record's offset and bRequireNextWriteSeek is clear); whenever the   *)
(* last access to the stream of an open handle was a read,                 *)
(* bRequireNextWriteSeek is set; and the flag is cleared only by a call    *)
(* that found a dirty record and wrote it without failure.                 *)
(***************************************************************************)
C21_SeekElision ==
    [][/\ ~disk'.unsafe
       /\ (psDBF' # NULL /\ disk'.io = "read") => psDBF'[1].bRequireNextWriteSeek
       /\ (/\ psDBF # NULL /\ psDBF' # NULL
           /\ psDBF[1].bRequireNextWriteSeek /\ ~psDBF'[1].bRequireNextWriteSeek)
             => (last'.dirty /\ ~disk'.err)]_vars

\* a call flushed the second of two appended records without a seek: the
\* stream stood at its offset after the write of the first
C21_Witness ==
    /\ disk.elided /\ ~disk.unsafe /\ ~disk.err
    /\ last.dirty /\ last.cur = 1
    /\ DiskRecord(fp, (IF IsOpen THEN H ELSE OpenedHandle(fp.data)[1]), 1)
          = <<chSpace, 120>>

(***************************************************************************)
(* C22.  Out-of-range indices are validation failures with no effect: a    *)
(* record read, a typed, NULL or date write, or a mark-deleted, given a    *)
(* record index outside its valid range or a field index outside           *)
(* [0, nFields), returns its failure value, calls no stream hook, and      *)
(* leaves the record count, the cached record's index, the record buffer   *)
(* and the dirty flag as they were.                                        *)
(***************************************************************************)
\* the call's record index is outside the range its operation accepts (an
\* append, at the record count, is in range for the writes)
RecordOutOfRange(call) ==
    \/ call.rec < 0
    \/ (call.op \in {"DBFWriteAttribute", "DBFWriteDateAttribute"} /\ call.rec > call.n)
    \/ (call.op \in {"DBFReadTuple", "DBFReadStringAttribute", "DBFMarkRecordDeleted"}
        /\ call.rec >= call.n)

FieldOutOfRange(call, nFields) ==
    /\ call.op \in {"DBFReadStringAttribute", "DBFWriteAttribute", "DBFWriteDateAttribute"}
    /\ (call.fld < 0 \/ call.fld >= nFields)

C22_OutOfRange ==
    [][(/\ psDBF # NULL /\ psDBF' # NULL
        /\ (RecordOutOfRange(last') \/ FieldOutOfRange(last', psDBF[1].nFields)))
       => /\ last'.ret = 0
          /\ ~disk'.used
          /\ psDBF'[1].nRecords = psDBF[1].nRecords
          /\ psDBF'[1].nCurrentRecord = psDBF[1].nCurrentRecord
          /\ psDBF'[1].pszCurrentRecord = psDBF[1].pszCurrentRecord
          /\ psDBF'[1].bCurrentRecordModified = psDBF[1].bCurrentRecordModified]_vars

(***************************************************************************)
(* C23.  A logical write whose byte is neither 'T' nor 'F' reports failure *)
(* and leaves the table untouched: the record count, the record buffer,    *)
(* the cached record's index and the dirty flag are as before, and no      *)
(* stream hook is called.                                                  *)
(***************************************************************************)
\* the call is a write of a byte that is no logical value to a logical
\* field of a record in range
BadLogicalWrite(call, h) ==
    /\ call.op = "DBFWriteAttribute"
    /\ call.rec >= 0 /\ call.rec <= call.n
    /\ call.fld >= 0 /\ call.fld < h.nFields
    /\ h.pachFieldType[call.fld + 1] = chL
    /\ call.arg.kind = "chr" /\ call.arg.v # chT /\ call.arg.v # chF

C23_BadLogicalWrite ==
    [][(psDBF # NULL /\ psDBF' # NULL /\ BadLogicalWrite(last', psDBF[1]))
       => /\ last'.ret = 0
          /\ ~disk'.used
          /\ psDBF'[1].nRecords = psDBF[1].nRecords
          /\ psDBF'[1].nCurrentRecord = psDBF[1].nCurrentRecord
          /\ psDBF'[1].pszCurrentRecord = psDBF[1].pszCurrentRecord
          /\ psDBF'[1].bCurrentRecordModified = psDBF[1].bCurrentRecordModified]_vars

(***************************************************************************)
(* C24.  A schema call that validation rejects (add or alter with a width  *)
(* below 1, add past the header length or record length limit, delete or   *)
(* alter with a field index out of range) returns the failure code of the  *)
(* function, calls no stream hook even when the cached record is dirty,    *)
(* and leaves the handle (schema, record count, cached record and its      *)
(* flags) as it was.                                                       *)
(***************************************************************************)
\* the call is one that validation rejects on handle h
Rejected(call, h) ==
    \/ /\ call.op = "DBFAddNativeFieldType"
       /\ \/ call.arg.width < 1
          \/ h.nHeaderLength + XBASE_FLDHDR_SZ > MAX_HEADER_LENGTH
          \/ h.nRecordLength + Min(call.arg.width, XBASE_FLD_MAX_WIDTH) > MAX_HEADER_LENGTH
    \/ /\ call.op = "DBFDeleteField"
       /\ (call.fld < 0 \/ call.fld >= h.nFields)
    \/ /\ call.op = "DBFAlterFieldDefn"
       /\ (call.fld < 0 \/ call.fld >= h.nFields \/ call.arg.width < 1)

\* -1 for add field, FALSE for delete and alter
FailureCode(op) == IF op = "DBFAddNativeFieldType" THEN -1 ELSE 0

C24_RejectedSchemaCall ==
    [][(psDBF # NULL /\ psDBF' # NULL /\ Rejected(last', psDBF[1]))
       => /\ last'.ret = FailureCode(last'.op)
          /\ ~disk'.used
          /\ psDBF' = psDBF]_vars

(***************************************************************************)
(* C25.  When a hook call fails inside the load or the flush of a record   *)
(* call, the call returns failure, and the buffer is afterwards not served *)
(* as a record it does not hold: if a record is still cached, its bytes    *)
(* are that record's bytes in the file, or the record is still marked      *)
(* dirty.                                                                  *)
(***************************************************************************)
\* the cache holds nothing, or a pending write, or what the file holds
CacheCoherent(h, f) ==
    \/ h.nCurrentRecord = -1
    \/ h.bCurrentRecordModified
    \/ CurrentRecordBytes(h) = DiskRecord(f, h, h.nCurrentRecord)

C25_FailedRecordIO ==
    [][(/\ psDBF # NULL /\ psDBF' # NULL /\ nCalls' # nCalls
        /\ last'.op \in {"DBFReadTuple", "DBFWriteAttribute"}
        /\ disk'.err)
       => /\ last'.ret = 0
          /\ CacheCoherent(H', fp')]_vars

(***************************************************************************)
(* C26.  A schema call (add, delete, reorder, alter field) returns success *)
(* only if every read and write it issued on the stream succeeded: a call  *)
(* in which a hook call failed returns its failure code.                   *)
(***************************************************************************)
\* the call returned success: the index of the new field for add field,
\* TRUE for the others
Succeeded(call) ==
    IF call.op = "DBFAddNativeFieldType" THEN call.ret >= 0 ELSE call.ret = 1

C26_SchemaIOChecked ==
    [][(/\ psDBF # NULL /\ psDBF' # NULL /\ nCalls' # nCalls
        /\ last'.op \in SchemaOps
        /\ disk'.err)
       => ~Succeeded(last')]_vars

(***************************************************************************)
(* C27.  Build-new-then-commit: when add, delete, reorder or alter field   *)
(* returns failure, the live schema of the handle (field count, descriptor *)
(* bytes, types, widths, decimals, offsets, record length, header length)  *)
(* is the schema from before the call, and the descriptor bytes, if they   *)
(* named the same type and width, field by field, as the field arrays      *)
(* before the call, still do.                                              *)
(***************************************************************************)
LiveSchema(h) ==
    [nFields |-> h.nFields,
     pszHeader |-> Bytes(h.pszHeader, 0, h.nFields * XBASE_FLDHDR_SZ),
     pachFieldType |-> [k \in 1..h.nFields |-> h.pachFieldType[k]],
     panFieldSize |-> [k \in 1..h.nFields |-> h.panFieldSize[k]],
     panFieldDecimals |-> [k \in 1..h.nFields |-> h.panFieldDecimals[k]],
     panFieldOffset |-> [k \in 1..h.nFields |-> h.panFieldOffset[k]],
     nRecordLength |-> h.nRecordLength,
     nHeaderLength |-> h.nHeaderLength]

\* descriptor k of the header has the type (byte 11) and the width (byte 16)
\* of field k of the arrays
DescriptorsAgree(h) ==
    \A k \in 0..(h.nFields - 1) :
        /\ FInfo(h.pszHeader, k)[12] = h.pachFieldType[k + 1]
        /\ FInfo(h.pszHeader, k)[17] = h.panFieldSize[k + 1]

C27_BuildThenCommit ==
    [][(/\ psDBF # NULL /\ psDBF' # NULL /\ nCalls' # nCalls
        /\ last'.op \in SchemaOps
        /\ ~Succeeded(last'))
       => /\ LiveSchema(H') = LiveSchema(H)
          /\ DescriptorsAgree(H) => DescriptorsAgree(H')]_vars

(***************************************************************************)
(* C28.  DBFOpenLL rejects malformed input without side effects: for a     *)
(* file FOpen does not find, an access string that is not allowed, a file  *)
(* shorter than the 32 bytes of the file header, a record length of 0, a   *)
(* header length below 32, or fields whose extent exceeds the record       *)
(* length, it returns no handle, it has closed each stream it opened (the  *)
(* .dbf and the sidecar) exactly once, and the two files are as before.    *)
(***************************************************************************)
\* the descriptors of the file: as many as the header length has room for,
\* up to the first that starts with the terminator
DescriptorsOf(data) ==
    LET room == (data[9] + 256 * data[10] - XBASE_FILEHDR_SZ) \div XBASE_FLDHDR_SZ
        ends == {k \in 0..(room - 1) :
                    data[XBASE_FILEHDR_SZ + k * XBASE_FLDHDR_SZ + 1]
                        = HEADER_RECORD_TERMINATOR}
    IN  IF ends = {} THEN room ELSE CHOOSE k \in ends : \A j \in ends : k <= j

\* 1 + the widths (byte 16) of the descriptors
RECURSIVE ExtentOf(_, _)
ExtentOf(data, n) ==
    IF n = 0 THEN 1
    ELSE ExtentOf(data, n - 1) + data[XBASE_FILEHDR_SZ + (n - 1) * XBASE_FLDHDR_SZ + 17]

Malformed(pszAccess, bFound, data) ==
    \/ pszAccess \notin {"r", "r+", "rb", "rb+", "r+b"}
    \/ ~bFound
    \/ Len(data) < XBASE_FILEHDR_SZ
    \/ /\ Len(data) >= XBASE_FILEHDR_SZ
       /\ \/ data[11] + 256 * data[12] = 0
          \/ data[9] + 256 * data[10] < XBASE_FILEHDR_SZ
          \/ /\ data[9] + 256 * data[10] > XBASE_FILEHDR_SZ
             /\ Len(data) >= data[9] + 256 * data[10]
             /\ DescriptorsOf(data) > 0
             /\ ExtentOf(data, DescriptorsOf(data)) > data[11] + 256 * data[12]

\* how often the hook call is among the calls made
Count(hooks, call) == Cardinality({i \in 1..Len(hooks) : hooks[i] = call})

\* the stream was opened at most once and closed as often as opened
ClosedOnce(hooks, open, close) ==
    /\ Count(hooks, open) <= 1
    /\ Count(hooks, close) = Count(hooks, open)

C28_OpenRejects ==
    [][(/\ nCalls' # nCalls /\ last'.op = "DBFOpen"
        /\ Malformed(last'.arg[1], last'.arg[2], fp.data))
       => /\ psDBF' = NULL /\ last'.ret = 0
          /\ ClosedOnce(last'.out, "FOpen dbf", "FClose dbf")
          /\ ClosedOnce(last'.out, "FOpen cpg", "FClose cpg")
          /\ disk'.data = disk.data
          /\ cpg' = cpg]_vars

\* a file with record length 0 and a sidecar was rejected: both streams were
\* opened, and both closed
C28_Witness ==
    /\ psDBF = NULL /\ last.op = "DBFOpen" /\ last.ret = 0
    /\ last.arg[1] = "rb+" /\ last.arg[2]
    /\ fp.data = ImageNoRecordLength /\ cpg = <<UTF8>>
    /\ last.out = <<"FOpen dbf", "FOpen cpg", "FClose dbf", "FClose cpg">>

(***************************************************************************)
(* C29.  Code page on create.  DBFCreateEx with "LDID/n", n in 0..255,     *)
(* sets the language driver id of the handle to n and leaves no sidecar    *)
(* file; with any other string it leaves the string in the sidecar file    *)
(* and the id 0; the handle keeps the string.  No later call changes       *)
(* either, and DBFClose leaves the id in byte 29 of the file.  Closed and  *)
(* opened again, the table's DBFGetCodePage is the string the handle had,  *)
(* if that is "LDID/n" with n in 1..255, or a string of 1 to 498 bytes     *)
(* without line end that does not start with "LDID/".                      *)
(***************************************************************************)
\* the string is "LDID/n" with n written in decimal
IsLdid(pszCodePage, n) == pszCodePage = <<LDID \o Digits(n)>>

\* the strings a close and a fresh open give back
RoundTrips(pszCodePage) ==
    /\ pszCodePage # NULL
    /\ \/ \E n \in 1..255 : IsLdid(pszCodePage, n)
       \/ /\ Len(pszCodePage[1]) > 0 /\ Len(pszCodePage[1]) < nBufSize - 1
          /\ ~(Len(pszCodePage[1]) >= Len(LDID)
                /\ Bytes(pszCodePage[1], 0, Len(LDID)) = LDID)
          /\ \A i \in 1..Len(pszCodePage[1]) :
                pszCodePage[1][i] # chLF /\ pszCodePage[1][i] # chCR
                /\ pszCodePage[1][i] # 0

\* what DBFCreateEx leaves behind for the string it was given
CodePageCreated ==
    (nCalls' # nCalls /\ last'.op = "DBFCreate" /\ last'.arg # NULL)
    => /\ psDBF'[1].pszCodePage = last'.arg
       /\ IF \E n \in 0..255 : IsLdid(last'.arg, n)
          THEN /\ IsLdid(last'.arg, psDBF'[1].iLanguageDriver)
               /\ cpg' = NULL
          ELSE /\ psDBF'[1].iLanguageDriver = 0
               /\ cpg' = last'.arg

\* no call on the handle changes the code page, the id or the sidecar file
CodePageKept ==
    (psDBF # NULL /\ psDBF' # NULL)
    => /\ psDBF'[1].pszCodePage = psDBF[1].pszCodePage
       /\ psDBF'[1].iLanguageDriver = psDBF[1].iLanguageDriver
       /\ cpg' = cpg

\* the code page of the table closed by this step and opened again
Reopened29 == DBFGetCodePage(OpenLL("rb", TRUE, fp'.data, cpg').ps)

MarkerAt(f, off) ==
    off >= 0 /\ off < Len(f.data) /\ f.data[off + 1] = END_OF_FILE_CHARACTER

\* the marker stands behind the last record of the table
Marked(h, f) == MarkerAt(f, RecordOffset(h, h.nRecords))

\* nothing of a created table is on file yet
Unwritten(h) == h.bNoHeader /\ h.nRecords = 0

\* the marker stands where the calls so far have left it
PreMarked(h, f) ==
    \/ Unwritten(h)
    \/ Marked(h, f)
    \/ /\ h.bCurrentRecordModified /\ h.nCurrentRecord = h.nRecords - 1
       /\ MarkerAt(f, RecordOffset(h, h.nRecords - 1))

\* the call of this step returned success and left no dirty record behind,
\* with the flag still set, or it closed the handle
LeftClean ==
    /\ Succeeded(last')
    /\ \/ psDBF' = NULL
       \/ /\ psDBF' # NULL
          /\ psDBF'[1].bWriteEndOfFileChar
          /\ ~psDBF'[1].bCurrentRecordModified

\* the marker stands behind the last record after the step
MarkedAfter ==
    IF psDBF' = NULL THEN MarkerAt(fp', RecordOffset(H, H.nRecords))
    ELSE Marked(H', fp')

C30_EofMarker ==
    [][(nCalls' # nCalls /\ psDBF # NULL)
       => /\ ~psDBF[1].bWriteEndOfFileChar => ~disk'.marker
          /\ (psDBF[1].bWriteEndOfFileChar /\ PreMarked(H, fp) /\ LeftClean)
                => (MarkedAfter \/ (psDBF' # NULL /\ Unwritten(psDBF'[1])))]_vars

\* a field was added to a table of two records while the flag was set: the
\* call wrote the marker behind the longer records
C30_Witness ==
    /\ IsOpen /\ last.op = "DBFAddNativeFieldType" /\ last.ret >= 0
    /\ psDBF[1].bWriteEndOfFileChar /\ psDBF[1].nRecords = 2
    /\ disk.marker /\ Marked(H, fp)

\* the claim as it is worded: the flag is set, the call returns success and
\* leaves no dirty record, or closes the handle, and the marker is there
\* (a created table whose header is not on file has no such byte yet)
C30_AsStated ==
    [][(nCalls' # nCalls /\ psDBF # NULL)
       => /\ ~psDBF[1].bWriteEndOfFileChar => ~disk'.marker
          /\ (psDBF[1].bWriteEndOfFileChar /\ LeftClean)
                => (MarkedAfter \/ (psDBF' # NULL /\ Unwritten(psDBF'[1])))]_vars

(***************************************************************************)
(* C31.  Header length.  A created handle has nHeaderLength = 32 + 32 *    *)
(* nFields + 1.  An opened handle keeps the header length the file states, *)
(* which is at least 32 + 32 * nFields and is larger than 33 + 32 *        *)
(* nFields where the descriptor list ends early at a 0x0D byte.  No call   *)
(* changes nHeaderLength - 32 * nFields, and an add or delete field on a   *)
(* table whose header is on file leaves 0x0D at offset 32 + 32 * nFields   *)
(* where the header has room for it.                                       *)
(***************************************************************************)
\* the bytes of the header past the file header and the descriptors
HeaderRoom(h) == h.nHeaderLength - XBASE_FILEHDR_SZ - XBASE_FLDHDR_SZ * h.nFields

\* the byte 0x0D stands behind the descriptors in the file
TerminatorAt(h, f) ==
    /\ Len(f.data) > XBASE_FILEHDR_SZ + XBASE_FLDHDR_SZ * h.nFields
    /\ f.data[XBASE_FILEHDR_SZ + XBASE_FLDHDR_SZ * h.nFields + 1] = HEADER_RECORD_TERMINATOR

C31_HeaderLength ==
    [][(nCalls' # nCalls /\ psDBF' # NULL)
       => /\ psDBF'[1].nHeaderLength >= XBASE_FILEHDR_SZ + XBASE_FLDHDR_SZ * psDBF'[1].nFields
          /\ last'.op = "DBFCreate" => HeaderRoom(psDBF'[1]) = 1
          /\ psDBF # NULL => HeaderRoom(psDBF'[1]) = HeaderRoom(psDBF[1])
          /\ (/\ psDBF # NULL /\ ~psDBF[1].bNoHeader
              /\ last'.op \in {"DBFAddNativeFieldType", "DBFDeleteField"}
              /\ Succeeded(last') /\ HeaderRoom(psDBF'[1]) > 0)
                => TerminatorAt(psDBF'[1], fp')]_vars

\* a field was added to a handle opened from a file whose second descriptor
\* starts with 0x0D: two fields under a header length of 129
C31_Witness ==
    /\ IsOpen /\ last.op = "DBFAddNativeFieldType" /\ last.ret = 1
    /\ psDBF[1].nFields = 2 /\ HeaderRoom(psDBF[1]) = 33
    /\ TerminatorAt(psDBF[1], fp)

\* the claim as it is worded: every handle has header length 33 + 32 * nFields
C31_AsStated == IsOpen => HeaderRoom(psDBF[1]) = 1

(***************************************************************************)
(* C32.  A rewrite in place destroys no unread data: in add field, delete  *)
(* field and alter field, no write (of a record, of the header or of the   *)
(* end-of-file marker) goes over a byte of a record that is still in the   *)
(* old layout and has not been read yet; and a call that succeeds has read *)
(* every record it moved.                                                  *)
(***************************************************************************)
RewriteOps == {"DBFAddNativeFieldType", "DBFDeleteField", "DBFAlterFieldDefn"}

C32_NoUnreadOverwritten ==
    [][(nCalls' # nCalls /\ last'.op \in RewriteOps)
       => /\ ~disk'.lost
          /\ (Succeeded(last') /\ disk'.used /\ psDBF'[1].nRecordLength # disk'.old[2])
                => disk'.unread = {}]_vars

\* a field was added to two records that take 38 bytes: record 0 went to
\* where record 1 had been, after record 1 was read
C32_Witness ==
    /\ IsOpen /\ last.op = "DBFAddNativeFieldType" /\ last.ret >= 0
    /\ psDBF[1].nRecords = 2 /\ 2 * disk.old[2] > XBASE_FLDHDR_SZ
    /\ disk.unread = {} /\ ~disk.lost
    /\ RecordOffset(H, 0) < disk.old[1] + 2 * disk.old[2]

(***************************************************************************)
(* C33.  Lazy header.  A created table has bNoHeader set and an empty      *)
(* file.  While bNoHeader is set no byte has been written and the table    *)
(* has no record; add, delete, reorder and alter field on such a table     *)
(* write nothing and leave bNoHeader set.  The header goes to the file in  *)
(* the first record write call (DBFWriteAttribute, DBFWriteTuple), before  *)
(* the record is touched, or else at close.                                *)
(***************************************************************************)
\* the file starts with the header of h: its length and its descriptors
HeaderOnFile(h, f) ==
    /\ Len(f.data) >= h.nHeaderLength
    /\ f.data[9] + 256 * f.data[10] = h.nHeaderLength
    /\ f.data[11] + 256 * f.data[12] = h.nRecordLength
    /\ Bytes(f.data, XBASE_FILEHDR_SZ, XBASE_FLDHDR_SZ * h.nFields)
            = Bytes(h.pszHeader, 0, XBASE_FLDHDR_SZ * h.nFields)

\* nothing of the table is on file
NothingOnFile ==
    /\ psDBF'[1].bNoHeader /\ psDBF'[1].nRecords = 0
    /\ disk'.data = <<>> /\ ~disk'.used

C33_LazyHeader ==
    [][(nCalls' # nCalls)
       => /\ last'.op = "DBFCreate" => NothingOnFile
          /\ (psDBF' # NULL /\ psDBF'[1].bNoHeader) => NothingOnFile
          /\ (psDBF # NULL /\ psDBF[1].bNoHeader /\ last'.op \in SchemaOps)
                => NothingOnFile
          /\ (/\ psDBF # NULL /\ psDBF[1].bNoHeader
              /\ last'.op \in {"DBFWriteAttribute", "DBFWriteTuple"})
                => (~psDBF'[1].bNoHeader /\ HeaderOnFile(H', fp'))
          /\ (psDBF # NULL /\ psDBF[1].bNoHeader /\ psDBF' = NULL)
                => HeaderOnFile(H, fp')]_vars

\* the first record write on a created table with a field: the header is on
\* file, the record is not yet
C33_Witness ==
    /\ IsOpen /\ last.op = "DBFWriteAttribute" /\ last.prev[1] = "DBFAddNativeFieldType"
    /\ ~psDBF[1].bNoHeader /\ psDBF[1].nRecords = 1 /\ psDBF[1].bCurrentRecordModified
    /\ HeaderOnFile(H, fp)
    /\ Len(fp.data) = psDBF[1].nHeaderLength + 1

\* the claim as it is worded: add field, as the first mutating call on a
\* created table, writes the header
C33_AsStated ==
    [][(/\ nCalls' # nCalls /\ psDBF # NULL /\ psDBF[1].bNoHeader
        /\ last'.op = "DBFAddNativeFieldType" /\ Succeeded(last'))
       => (~psDBF'[1].bNoHeader /\ HeaderOnFile(H', fp'))]_vars

(***************************************************************************)
(* C34.  DBFUpdateHeader on a table whose header is on file changes, apart *)
(* from the flush of a dirty cached record (the record and, behind the     *)
(* last record, the end-of-file marker), only bytes 1 to 7 of the file:    *)
(* every other byte stays and the file keeps its length; bytes 1-3 are     *)
(* then the update date and bytes 4-7 the record count, low byte first.    *)
(***************************************************************************)
\* the offsets the flush of the dirty record of h writes
FlushRegion(h) ==
    IF h.bCurrentRecordModified /\ h.nCurrentRecord > -1
    THEN RecordOffset(h, h.nCurrentRecord)
            ..(RecordOffset(h, h.nCurrentRecord) + h.nRecordLength - 1
               + (IF h.nCurrentRecord = h.nRecords - 1 /\ h.bWriteEndOfFileChar
                  THEN 1 ELSE 0))
    ELSE {}

\* offsets 1 to 7: the update date and the record count
RefreshedBytes == 1..7

C34_UpdateHeaderFrame ==
    [][(/\ nCalls' # nCalls /\ last'.op = "DBFUpdateHeader"
        /\ psDBF # NULL /\ ~psDBF[1].bNoHeader)
       => LET Frame(h, old, new) ==
                /\ \A off \in 0..(Len(new) - 1) :
                        (off \notin RefreshedBytes /\ off \notin FlushRegion(h))
                            => (off < Len(old) /\ new[off + 1] = old[off + 1])
                /\ Len(new) >= Len(old)
                /\ Bytes(new, 1, 3) = <<h.nUpdateYearSince1900, h.nUpdateMonth,
                                        h.nUpdateDay>>
                /\ Bytes(new, 4, 4) = <<h.nRecords % 256, (h.nRecords \div 256) % 256,
                                        0, 0>>
          IN  Frame(H, fp.data, fp'.data)]_vars

\* the header was refreshed with a new date and a record appended since the
\* header was written: bytes 1 to 7 changed, and the dirty record went out
C34_Witness ==
    /\ IsOpen /\ last.op = "DBFUpdateHeader" /\ last.dirty
    /\ last.prev[1] = "DBFSetLastModifiedDate"
    /\ psDBF[1].nRecords = 1 /\ ~psDBF[1].bCurrentRecordModified
    /\ Bytes(fp.data, 1, 7) = <<124, 3, 7, 1, 0, 0, 0>>

(***************************************************************************)
(* C38.  Update date: a created table carries the date 1995-07-26 until    *)
(* the caller sets another; and whatever the calls before close were, the  *)
(* date the handle carries at close (the one set last with                 *)
(* DBFSetLastModifiedDate) is in bytes 1-3 of the header after close, and  *)
(* a fresh open returns it.                                                *)
(***************************************************************************)
\* the update date of the handle, as the three header bytes
UpdateDate(h) ==
    <<h.nUpdateYearSince1900 % 256, h.nUpdateMonth % 256, h.nUpdateDay % 256>>

C38_UpdateDate ==
    [][(nCalls' # nCalls)
       => /\ last'.op = "DBFCreate" => UpdateDate(psDBF'[1]) = <<95, 7, 26>>
          /\ (psDBF # NULL /\ psDBF' = NULL)
                => Bytes(fp'.data, 1, 3) = UpdateDate(psDBF[1])
          /\ (last'.op = "DBFOpen" /\ psDBF' # NULL)
                => UpdateDate(psDBF'[1]) = Bytes(fp'.data, 1, 3)]_vars

(***************************************************************************)
(* C35.  String write on a C field of width w: a string of at most w       *)
(* bytes is stored from the first byte of the field and followed by spaces *)
(* up to w bytes, and the write returns true ("hi" in width 5 is stored as *)
(* "hi" and three spaces); of a longer string the first w bytes are stored *)
(* and the write returns false; no byte of the record outside the field    *)
(* changes.                                                                *)
(***************************************************************************)
\* record i as the write finds it: the cached one, a new one of spaces, or
\* the one on file
RecordBefore(h, f, i) ==
    IF i = h.nCurrentRecord THEN CurrentRecordBytes(h)
    ELSE IF i = h.nRecords THEN Fill(h.nRecordLength, chSpace)
    ELSE DiskRecord(f, h, i)

\* rec is base outside field k
OnlyField(h, base, rec, k) ==
    /\ Len(rec) = Len(base)
    /\ \A i \in 1..Len(rec) :
        (i <= h.panFieldOffset[k + 1]
         \/ i > h.panFieldOffset[k + 1] + h.panFieldSize[k + 1])
            => rec[i] = base[i]

C35_StringWrite ==
    [][(/\ nCalls' # nCalls /\ last'.op = "DBFWriteAttribute"
        /\ psDBF # NULL /\ psDBF' # NULL
        /\ last'.fld \in 0..(psDBF[1].nFields - 1)
        /\ psDBF[1].pachFieldType[last'.fld + 1] = chC
        /\ last'.arg.kind = "str"
        /\ psDBF'[1].nCurrentRecord = last'.rec)
       => LET Stored(h, base, rec, k, v, ret) ==
                /\ Len(v) <= h.panFieldSize[k + 1]
                    => /\ ret = 1
                       /\ FieldOf(rec, h, k)
                            = v \o Fill(h.panFieldSize[k + 1] - Len(v), chSpace)
                /\ Len(v) > h.panFieldSize[k + 1]
                    => /\ ret = 0
                       /\ FieldOf(rec, h, k) = SubSeq(v, 1, h.panFieldSize[k + 1])
                /\ OnlyField(h, base, rec, k)
          IN  Stored(H', RecordBefore(H, fp, last'.rec), CurrentRecordBytes(H'),
                     last'.fld, last'.arg.v, last'.ret)]_vars

\* "hi" was written over "zzzzz", after "abcdef" was refused
C35_Witness ==
    /\ IsOpen /\ last.op = "DBFWriteAttribute" /\ last.fld = 0 /\ last.ret = 1
    /\ last.arg.kind = "str" /\ last.arg.v = <<104, 105>>
    /\ psDBF[1].panFieldSize[1] = 5
    /\ FieldOf(CurrentRecordBytes(H), H, 0) = <<104, 105, chSpace, chSpace, chSpace>>
    /\ last.prev[1] = "DBFWriteAttribute" /\ last.prev[2] = last.rec
    /\ last.prev[3] = 0 /\ last.prev[4].v = <<97, 98, 99, 100, 101, 102>>

(***************************************************************************)
(* C36.  Numeric write on an N or F field of width w: the field holds the  *)
(* value formatted right-aligned in w characters, cut to its first w       *)
(* characters when the text is longer; the write returns false exactly     *)
(* when the text was cut and the cut text does not parse to the value; all *)
(* w bytes of the field, and no other byte of the record, are written.     *)
(***************************************************************************)
\* the text of value in a field of width w with dec decimals, cut to w
NumberText(value, w, dec) ==
    IF Len(FormatF(value, w, dec)) > w THEN SubSeq(FormatF(value, w, dec), 1, w)
    ELSE FormatF(value, w, dec)

C36_NumericWrite ==
    [][(/\ nCalls' # nCalls /\ last'.op = "DBFWriteAttribute"
        /\ psDBF # NULL /\ psDBF' # NULL
        /\ last'.fld \in 0..(psDBF[1].nFields - 1)
        /\ psDBF[1].pachFieldType[last'.fld + 1] \in {chN, chF}
        /\ last'.arg.kind = "num"
        /\ psDBF'[1].nCurrentRecord = last'.rec)
       => LET Stored(h, base, rec, k, v, ret) ==
                /\ FieldOf(rec, h, k)
                    = NumberText(v, h.panFieldSize[k + 1], h.panFieldDecimals[k + 1])
                /\ (ret = 0)
                    <=> (/\ Len(FormatF(v, h.panFieldSize[k + 1],
                                        h.panFieldDecimals[k + 1]))
                                > h.panFieldSize[k + 1]
                         /\ ~AtofEquals(NumberText(v, h.panFieldSize[k + 1],
                                                   h.panFieldDecimals[k + 1]), v))
                /\ OnlyField(h, base, rec, k)
          IN  Stored(H', RecordBefore(H, fp, last'.rec), CurrentRecordBytes(H'),
                     last'.fld, last'.arg.v, last'.ret)]_vars

(***************************************************************************)
(* C37.  Date round trip: a date with year in 0..9999, month in 0..99 and  *)
(* day in 0..99 written to a D field is stored as the 8 bytes yyyymmdd,    *)
(* and the write returns true only if all 8 bytes are in the field; a date *)
(* read of a field that holds the 8 bytes of a date returns that date; a   *)
(* date outside the ranges is refused and nothing changes; a field that    *)
(* holds "00000000" reads as <<0, 0, 0>> and is NULL.                      *)
(***************************************************************************)
DateInRange(d) ==
    /\ d.year >= 0 /\ d.year <= 9999
    /\ d.month >= 0 /\ d.month <= 99
    /\ d.day >= 0 /\ d.day <= 99

\* "yyyymmdd"
DateText(d) == ZeroPadded(d.year, 4) \o ZeroPadded(d.month, 2) \o ZeroPadded(d.day, 2)

C37_DateRoundTrip ==
    [][(/\ nCalls' # nCalls /\ psDBF # NULL /\ psDBF' # NULL
        /\ last'.fld \in 0..(psDBF[1].nFields - 1)
        /\ psDBF[1].pachFieldType[last'.fld + 1] = chD)
       => LET Stored(h, base, rec, k, d, ret) ==
                /\ ret = 1 => /\ h.panFieldSize[k + 1] >= 8
                              /\ Bytes(FieldOf(rec, h, k), 0, 8) = DateText(d)
                /\ OnlyField(h, base, rec, k)
              Read(h, rec, k, out) ==
                \A d \in CodecDates :
                    (DateInRange(d) /\ FieldOf(rec, h, k) = DateText(d))
                        => out = <<d.year, d.month, d.day>>
          IN  /\ (/\ last'.op = "DBFWriteDateAttribute" /\ DateInRange(last'.arg)
                  /\ psDBF'[1].nCurrentRecord = last'.rec)
                    => Stored(H', RecordBefore(H, fp, last'.rec), CurrentRecordBytes(H'),
                              last'.fld, last'.arg, last'.ret)
              /\ (last'.op = "DBFWriteDateAttribute" /\ ~DateInRange(last'.arg))
                    => (last'.ret = 0 /\ H' = H /\ fp'.data = fp.data)
              /\ (last'.op = "DBFReadDateAttribute" /\ last'.ret = 1)
                    => Read(H', CurrentRecordBytes(H'), last'.fld, last'.out)
              /\ (/\ last'.op = "DBFIsAttributeNULL"
                  /\ psDBF'[1].nCurrentRecord = last'.rec
                  /\ FieldOf(CurrentRecordBytes(H'), H', last'.fld) = Fill(8, chZero))
                    => last'.ret = 1]_vars

(***************************************************************************)
(* C39.  Cache-state invariant: in every state of an open table, after     *)
(* failed calls too, a modified current record is a record of the table    *)
(* (0 <= nCurrentRecord < nRecords), and with no current record            *)
(* (nCurrentRecord = -1) the modified flag is clear.                       *)
(***************************************************************************)
C39_CacheState ==
    IsOpen
        => /\ psDBF[1].bCurrentRecordModified
                => (psDBF[1].nCurrentRecord >= 0
                    /\ psDBF[1].nCurrentRecord < psDBF[1].nRecords)
           /\ psDBF[1].nCurrentRecord = -1 => ~psDBF[1].bCurrentRecordModified

(***************************************************************************)
(* C40.  Reorder is invertible: on a table whose record length is 1 + the  *)
(* sum of the field widths, after a successful DBFReorderFields with a     *)
(* permutation p a DBFReorderFields with the inverse of p succeeds and     *)
(* gives back the schema (descriptors, offsets, widths, decimals, types)   *)
(* and every byte of every record the table had before the first call; and *)
(* a reorder with the identity permutation changes neither.                *)
(***************************************************************************)
\* the permutation that undoes panMap (both count fields from 0)
InverseMap(panMap) ==
    [i \in 1..Len(panMap) |-> (CHOOSE j \in 1..Len(panMap) : panMap[j] = i - 1) - 1]

IdentityMap(n) == [i \in 1..n |-> i - 1]

SchemaOf(h) ==
    <<h.nFields, Bytes(h.pszHeader, 0, h.nFields * XBASE_FLDHDR_SZ),
      h.panFieldOffset, h.panFieldSize, h.panFieldDecimals, h.pachFieldType>>

\* the records of the table, the cached one as the handle holds it
RecordsOf(h, f) ==
    [i \in 0..(h.nRecords - 1) |->
        IF h.bCurrentRecordModified /\ h.nCurrentRecord = i
        THEN CurrentRecordBytes(h) ELSE DiskRecord(f, h, i)]

C40_ReorderInverse ==
    [][(/\ nCalls' # nCalls /\ last'.op = "DBFReorderFields" /\ last'.ret = 1
        /\ psDBF # NULL /\ psDBF[1].nFields > 0
        /\ psDBF[1].nRecordLength
            = 1 + SumSizes(psDBF[1].panFieldSize, psDBF[1].nFields))
       => LET Same(h0, f0, h, f) ==
                SchemaOf(h) = SchemaOf(h0) /\ RecordsOf(h, f) = RecordsOf(h0, f0)
              Back(h0, f0, r) ==
                r.ret /\ Same(h0, f0, r.h, r.f)
              Undone(h0, f0, h1, f1, p) ==
                /\ \A junk \in Junk :
                    Back(h0, f0, ReorderFields(Env(h1, Begin(f1), TRUE),
                                               InverseMap(p), junk))
                /\ p = IdentityMap(h0.nFields) => Same(h0, f0, h1, f1)
          IN  Undone(H, fp, H', fp', last'.out)]_vars

\* a rotation of three fields was undone by the opposite rotation: the
\* fields are L(1), N(2), D(8) again and the records those of the file
C40_Witness ==
    /\ IsOpen /\ last.op = "DBFReorderFields" /\ last.ret = 1
    /\ last.out = <<2, 0, 1>>
    /\ last.prev[1] = "DBFReorderFields" /\ last.prev[4] = <<>>
    /\ psDBF[1].pachFieldType = <<chL, chN, chD>>
    /\ psDBF[1].panFieldOffset = <<1, 2, 4>>
    /\ DiskRecord(fp, H, 0) = Bytes(ImageThree, 129, 12)
    /\ DiskRecord(fp, H, 1) = Bytes(ImageThree, 141, 12)

(***************************************************************************)
(* C6.  Size limits: in every state reached by add field and alter field   *)
(* calls, nFields <= 2046, nHeaderLength <= 65535 and nRecordLength <=     *)
(* 65535, so that the 16-bit fields of the header never wrap.              *)
(***************************************************************************)
C6_SizeLimits ==
    IsOpen =>
        /\ H.nFields <= (MAX_HEADER_LENGTH - XBASE_FILEHDR_SZ - 1) \div XBASE_FLDHDR_SZ
        /\ H.nHeaderLength <= MAX_HEADER_LENGTH
        /\ H.nRecordLength <= MAX_HEADER_LENGTH

====
